---- MODULE Spec2Model ----
(***************************************************************************)
(* Model of the LLM provider registry (service.go) and of the bounded      *)
(* batch embedder (LLMEmbedder).                                           *)
(*                                                                         *)
(* Spec       the registry: goroutines calling RegisterProvider,           *)
(*            GetProvider, ListProviders and ListModels concurrently.      *)
(* SpecDispatch  the registry's pass-through operations GetModel,          *)
(*            Complete, Chat and Embed, concurrent with registrations.     *)
(* SpecBatch  one LLMEmbedder.BatchEmbed call with its worker goroutines.  *)
(* SpecPool   the same call over items that only embed or fail, with       *)
(*            SetMaxPoolSize at any time; SpecPoolFair adds fair           *)
(*            scheduling of the call's goroutines.                         *)
(* SpecEmbedder  LLMEmbedder.Embed and SetMaxPoolSize on embedders of      *)
(*            several expected dimensions.                                 *)
(* SpecAlias  which of the values returned to callers are allocated by the *)
(*            call and which are a provider's slices.                      *)
(* SpecService  all eight registry operations together.                    *)
(* SpecLockFair  RegisterProvider and GetProvider under fair scheduling    *)
(*            and a lock that starves no waiter.                           *)
(* SpecPair   two BatchEmbed calls running on one embedder.                *)
(***************************************************************************)
EXTENDS Integers, Sequences, FiniteSets, TLC

\* ------------------------------------------------------------------------
\* Bounds
\* ------------------------------------------------------------------------
NumThreads == 2

\* longest input sequence given to BatchEmbed
MaxItems == 3

Threads == 1..NumThreads

\* SetMaxPoolSize calls whose arguments are kept in the history
MaxSets == 3

\* values returned to callers that are kept in the history
MaxReturns == 3

\* objects callers write to
MaxWrites == 1

\* ------------------------------------------------------------------------
\* Values
\* ------------------------------------------------------------------------
\* the nil interface value / the nil error
Nil == "nil"
NoErr == [kind |-> "nil"]

\* the nil map ListModels returns on failure (distinct from an empty map)
NilMap == [nilmap |-> TRUE]

\* absent thread (no writer holds the lock)
NoThread == 0

\* Provider instances (pointers to mockProvider values).  pa1 and pa2 are two
\* different instances carrying the same name; pe carries the empty name.
Instances == {"pa1", "pa2", "pb", "pe"}

\* mockProvider.Name
Name(p) ==
  CASE p = "pa1" -> "a"
    [] p = "pa2" -> "a"
    [] p = "pb"  -> "b"
    [] p = "pe"  -> ""

\* names a caller may ask for ("c" is never registered)
LookupNames == {"a", "b", "c"}

\* ModelInfo values (only the fields the tests set)
ModelInfo(name, ctx) == [Name |-> name, ContextWindowSize |-> ctx]

\* mockProvider.models
ModelsOf(p) ==
  CASE p = "pa1" -> <<ModelInfo("M1", 1024), ModelInfo("M2", 2048)>>
    [] p = "pa2" -> <<ModelInfo("M1", 1024)>>
    [] p = "pb"  -> <<ModelInfo("M3", 4096)>>
    [] p = "pe"  -> <<>>

ModelIDs == {"m1"}
Requests == {"r1"}
NoModel == ""
NoRequest == ""

\* ------------------------------------------------------------------------
\* Errors, as the code builds them with fmt.Errorf
\* ------------------------------------------------------------------------
ErrProviderNil == [kind |-> "provider cannot be nil"]
ErrEmptyName == [kind |-> "provider name cannot be empty"]
ErrAlreadyRegistered(name) ==
  [kind |-> "provider %s already registered", name |-> name]
ErrNotFound(name) == [kind |-> "provider %s not found", name |-> name]
ErrListModels(name, cause) ==
  [kind |-> "failed to list models for provider %s: %w",
   name |-> name, cause |-> cause]

\* the error a provider's own operation fails with
ProviderErr(p, o) == [kind |-> "provider failure", from |-> p, op |-> o]

\* ------------------------------------------------------------------------
\* State
\* ------------------------------------------------------------------------
VARIABLES
  providers,   \* service.providers: function from registered names to instances
  mu,          \* service.mu: [writer |-> thread or NoThread, readers |-> set,
               \* pending |-> the writer that has announced itself, blocked |->
               \* the readers held back by it]
  pc,          \* position of each calling goroutine
  op,          \* operation the goroutine is executing
  arg,         \* its arguments
  ret,         \* its return values [val, err], once it has returned
  snapshot,    \* ListModels' local copy of the provider map
  result,      \* ListModels' local result map
  cur,         \* provider whose method is being called
  calls,       \* provider calls made by the current operation, in order
  accepted     \* history: <<name, instance>> of RegisterProvider calls that returned nil

regVars == <<providers, mu, pc, op, arg, ret, snapshot, result, cur, calls, accepted>>

VARIABLES
  maxPoolSize, \* LLMEmbedder.maxPoolSize
  dimensions,  \* LLMEmbedder.dimensions
  bpc,         \* position of the goroutine that called BatchEmbed
  contents,    \* its argument
  results,     \* BatchEmbed's results slice
  errs,        \* BatchEmbed's errs slice
  capacity,    \* capacity of the semaphore channel
  semaphore,   \* number of elements in the semaphore channel
  done,        \* elements in the done channel, oldest first
  wpc,         \* position of the worker goroutine of each item
  spawned,     \* number of iterations of the spawning loop so far
  received,    \* number of iterations of the waiting loop so far
  batchRet     \* BatchEmbed's return values [val, err]

embVars == <<maxPoolSize, dimensions, bpc, contents, results, errs, capacity,
             semaphore, done, wpc, spawned, received, batchRet>>

VARIABLES
  epc,         \* position of the goroutine that called LLMEmbedder.Embed
  econtent,    \* its argument
  requests,    \* the requests it passed to e.service.Embed, in order
  embedRet,    \* Embed's return values [val, err]
  setLog       \* history: the arguments of the SetMaxPoolSize calls, in order

callVars == <<epc, econtent, requests, embedRet, setLog>>

VARIABLES
  keeps,       \* whether the provider returns slices it keeps (the mocks of the
               \* tests) or builds a new slice for every call (OllamaProvider)
  heap,        \* the slices and maps allocated so far, by address
  given        \* history: the values returned to callers, [op, root], in order

refVars == <<keeps, heap, given>>

VARIABLES
  other        \* the locals of a second BatchEmbed call running on the same
               \* embedder (its slices, channels, workers and loop counters)
               \* while the goroutines of the first are running

peerVars == <<other>>

vars == <<regVars, embVars, callVars, refVars, peerVars>>

EmptyMap == [n \in {} |-> Nil]

\* variant: the assignment replaces the map by one holding the new entry
\* only
Put_Alone(m, k, v) == [n \in {k} |-> v]

Put(m, k, v) == [n \in DOMAIN m \cup {k} |-> IF n = k THEN v ELSE m[n]]

NoRet == [val |-> Nil, err |-> NoErr]

\* a provider call in the log: what was called with what, and what the
\* provider returned (Pending while the call is in flight)
Pending == [pending |-> TRUE]

Call(p, o, m, r) ==
  [provider |-> p, op |-> o, modelID |-> m, request |-> r, out |-> Pending]

\* the zero value of a response type
Zero == [zero |-> TRUE]

\* what a provider's operation returns on success
ProviderVal(p, o, m, r) ==
  IF o = "ListModels"
    THEN ModelsOf(p)
    ELSE [from |-> p, op |-> o, modelID |-> m, request |-> r]

\* the pair a provider call returns: a value, or the provider's own error
ProviderReturn(c, ok) ==
  IF ok
    THEN [val |-> ProviderVal(c.provider, c.op, c.modelID, c.request), err |-> NoErr]
    ELSE [val |-> Zero, err |-> ProviderErr(c.provider, c.op)]

\* the log once the call in flight (the last one) has returned out
Returned(log, out) == [log EXCEPT ![Len(log)].out = out]

\* all orders in which a map iteration can visit a set of keys
Orders(S) ==
  {s \in [1..Cardinality(S) -> S] : \A i, j \in DOMAIN s : i # j => s[i] # s[j]}

InitRegistry ==
  /\ providers = EmptyMap
  /\ mu = [writer |-> NoThread, readers |-> {}, pending |-> NoThread, blocked |-> {}]
  /\ pc = [t \in Threads |-> "idle"]
  /\ op = [t \in Threads |-> "none"]
  /\ arg = [t \in Threads |-> <<>>]
  /\ ret = [t \in Threads |-> NoRet]
  /\ snapshot = [t \in Threads |-> EmptyMap]
  /\ result = [t \in Threads |-> EmptyMap]
  /\ cur = [t \in Threads |-> Nil]
  /\ calls = [t \in Threads |-> <<>>]
  /\ accepted = {}

\* NewLLMEmbedder: the default pool size; no BatchEmbed call is running
DefaultPoolSize == 10

NoOut == [val |-> [nil |-> TRUE, items |-> <<>>], err |-> NoErr]

\* no Embed call is running
NoContent == [kind |-> "none", value |-> ""]
NoEmbedRet == [val |-> <<>>, err |-> NoErr]

\* the locals of a BatchEmbed call that is not running
NoCall ==
  [bpc |-> "idle", contents |-> <<>>, results |-> <<>>, errs |-> <<>>,
   capacity |-> 0, semaphore |-> 0, done |-> <<>>, wpc |-> <<>>,
   spawned |-> 0, received |-> 0, batchRet |-> NoOut]

InitEmbedder(d) ==
  /\ other = NoCall
  /\ maxPoolSize = DefaultPoolSize
  /\ dimensions = d
  /\ bpc = "idle"
  /\ contents = <<>>
  /\ results = <<>>
  /\ errs = <<>>
  /\ capacity = 0
  /\ semaphore = 0
  /\ done = <<>>
  /\ wpc = <<>>
  /\ spawned = 0
  /\ received = 0
  /\ batchRet = NoOut
  /\ epc = "idle"
  /\ econtent = NoContent
  /\ requests = <<>>
  /\ embedRet = NoEmbedRet
  /\ setLog = <<>>

\* the provider's own slices, if it keeps any; nothing has been returned
InitRefs(k) ==
  /\ keeps = k
  /\ heap = (IF k THEN <<[kind |-> "models", refs |-> <<>>, written |-> FALSE],
                         [kind |-> "vector", refs |-> <<>>, written |-> FALSE]>>
                  ELSE <<>>)
  /\ given = <<>>

\* a goroutine leaves the function: the caller has its return values
Returns(t, o, a, v, e) ==
  /\ pc' = [pc EXCEPT ![t] = "done"]
  /\ op' = [op EXCEPT ![t] = o]
  /\ arg' = [arg EXCEPT ![t] = a]
  /\ ret' = [ret EXCEPT ![t] = [val |-> v, err |-> e]]

\* a goroutine moves on inside the function
Goes(t, o, a, where) ==
  /\ pc' = [pc EXCEPT ![t] = where]
  /\ op' = [op EXCEPT ![t] = o]
  /\ arg' = [arg EXCEPT ![t] = a]
  /\ ret' = [ret EXCEPT ![t] = NoRet]

\* ------------------------------------------------------------------------
\* sync.RWMutex
\* ------------------------------------------------------------------------
\* variant: RegisterProvider takes the lock in shared mode
Lock_Shared(t) ==
  /\ pc[t] = "lock"
  /\ mu.writer = NoThread
  /\ mu' = [mu EXCEPT !.readers = @ \cup {t}]
  /\ pc' = [pc EXCEPT ![t] = "locked"]
  /\ UNCHANGED <<providers, op, arg, ret, snapshot, result, cur, calls, accepted>>
  /\ UNCHANGED <<embVars, callVars, refVars, peerVars>>

Lock(t) ==
  /\ pc[t] = "lock"
  /\ mu.writer = NoThread
  /\ mu.readers = {}
  /\ mu' = [mu EXCEPT !.writer = t]
  /\ pc' = [pc EXCEPT ![t] = "locked"]
  /\ UNCHANGED <<providers, op, arg, ret, snapshot, result, cur, calls, accepted>>
  /\ UNCHANGED <<embVars, callVars, refVars, peerVars>>

RLock(t) ==
  /\ pc[t] = "rlock"
  /\ mu.writer = NoThread
  /\ mu' = [mu EXCEPT !.readers = @ \cup {t}]
  /\ pc' = [pc EXCEPT ![t] = "rlocked"]
  /\ UNCHANGED <<providers, op, arg, ret, snapshot, result, cur, calls, accepted>>
  /\ UNCHANGED <<embVars, callVars, refVars, peerVars>>

\* Unlock: the readers held back meanwhile are let in together, and the
\* next writer may announce itself
Unlock(t) ==
  [mu EXCEPT !.writer = NoThread, !.pending = NoThread,
             !.readers = @ \cup mu.blocked, !.blocked = {}]

RUnlock(t) == [mu EXCEPT !.readers = @ \ {t}]

\* The steps inside sync.RWMutex that decide who waits for whom.  A Lock
\* call first announces itself, one writer at a time, and then waits for the
\* readers that hold the lock; an RLock call that finds a writer announced
\* is held back until that writer's Unlock, which lets it in.
LockAnnounce(t) ==
  /\ pc[t] = "lock"
  /\ mu.pending = NoThread
  /\ mu' = [mu EXCEPT !.pending = t]
  /\ UNCHANGED <<providers, pc, op, arg, ret, snapshot, result, cur, calls, accepted>>
  /\ UNCHANGED <<embVars, callVars, refVars, peerVars>>

RLockWait(t) ==
  /\ pc[t] = "rlock"
  /\ mu.pending # NoThread
  /\ mu' = [mu EXCEPT !.blocked = @ \cup {t}]
  /\ pc' = [pc EXCEPT ![t] = "rblocked"]
  /\ UNCHANGED <<providers, op, arg, ret, snapshot, result, cur, calls, accepted>>
  /\ UNCHANGED <<embVars, callVars, refVars, peerVars>>

RLockResume(t) ==
  /\ pc[t] = "rblocked"
  /\ t \in mu.readers
  /\ pc' = [pc EXCEPT ![t] = "rlocked"]
  /\ UNCHANGED <<providers, mu, op, arg, ret, snapshot, result, cur, calls, accepted>>
  /\ UNCHANGED <<embVars, callVars, refVars, peerVars>>

\* ------------------------------------------------------------------------
\* RegisterProvider
\* ------------------------------------------------------------------------
\* variant: the empty-name check is missing
RegisterProvider_NoNameCheck(t, p) ==
  /\ pc[t] = "idle"
  /\ IF p = Nil
       THEN Returns(t, "RegisterProvider", [provider |-> p], Nil, ErrProviderNil)
       ELSE Goes(t, "RegisterProvider", [provider |-> p], "lock")
  /\ UNCHANGED <<providers, mu, snapshot, result, cur, calls, accepted>>
  /\ UNCHANGED <<embVars, callVars, refVars, peerVars>>

\* entry: the argument checks made before the lock is taken
RegisterProvider(t, p) ==
  /\ pc[t] = "idle"
  /\ IF p = Nil
       THEN Returns(t, "RegisterProvider", [provider |-> p], Nil, ErrProviderNil)
       ELSE IF Name(p) = ""
         THEN Returns(t, "RegisterProvider", [provider |-> p], Nil, ErrEmptyName)
         ELSE Goes(t, "RegisterProvider", [provider |-> p], "lock")
  /\ UNCHANGED <<providers, mu, snapshot, result, cur, calls, accepted>>
  /\ UNCHANGED <<embVars, callVars, refVars, peerVars>>

\* variant: no duplicate check, the entry is overwritten
RegisterProviderLocked_Overwrite(t) ==
  /\ pc[t] = "locked"
  /\ op[t] = "RegisterProvider"
  /\ LET p == arg[t].provider
         name == Name(p)
     IN /\ providers' = Put(providers, name, p)
        /\ accepted' = accepted \cup {<<name, p>>}
        /\ Returns(t, op[t], arg[t], Nil, NoErr)
  /\ mu' = Unlock(t)
  /\ UNCHANGED <<snapshot, result, cur, calls>>
  /\ UNCHANGED <<embVars, callVars, refVars, peerVars>>

\* variant: a registered name is not an error, the call returns nil and
\* keeps the entry
RegisterProviderLocked_SilentDuplicate(t) ==
  /\ pc[t] = "locked"
  /\ op[t] = "RegisterProvider"
  /\ LET p == arg[t].provider
         name == Name(p)
     IN IF name \in DOMAIN providers
          THEN /\ Returns(t, op[t], arg[t], Nil, NoErr)
               /\ UNCHANGED <<providers, accepted>>
          ELSE /\ providers' = Put(providers, name, p)
               /\ accepted' = accepted \cup {<<name, p>>}
               /\ Returns(t, op[t], arg[t], Nil, NoErr)
  /\ mu' = Unlock(t)
  /\ UNCHANGED <<snapshot, result, cur, calls>>
  /\ UNCHANGED <<embVars, callVars, refVars, peerVars>>

\* variant: Unlock is not deferred, the return on a registered name leaves
\* the write lock held
RegisterProviderLocked_NoUnlockOnError(t) ==
  /\ pc[t] = "locked"
  /\ op[t] = "RegisterProvider"
  /\ LET p == arg[t].provider
         name == Name(p)
     IN IF name \in DOMAIN providers
          THEN /\ Returns(t, op[t], arg[t], Nil, ErrAlreadyRegistered(name))
               /\ UNCHANGED <<providers, accepted, mu>>
          ELSE /\ providers' = Put(providers, name, p)
               /\ accepted' = accepted \cup {<<name, p>>}
               /\ Returns(t, op[t], arg[t], Nil, NoErr)
               /\ mu' = Unlock(t)
  /\ UNCHANGED <<snapshot, result, cur, calls>>
  /\ UNCHANGED <<embVars, callVars, refVars, peerVars>>

\* under the write lock: duplicate check, insertion, deferred Unlock
RegisterProviderLocked(t) ==
  /\ pc[t] = "locked"
  /\ op[t] = "RegisterProvider"
  /\ LET p == arg[t].provider
         name == Name(p)
     IN IF name \in DOMAIN providers
          THEN /\ Returns(t, op[t], arg[t], Nil, ErrAlreadyRegistered(name))
               /\ UNCHANGED <<providers, accepted>>
          ELSE /\ providers' = Put(providers, name, p)
               /\ accepted' = accepted \cup {<<name, p>>}
               /\ Returns(t, op[t], arg[t], Nil, NoErr)
  /\ mu' = Unlock(t)
  /\ UNCHANGED <<snapshot, result, cur, calls>>
  /\ UNCHANGED <<embVars, callVars, refVars, peerVars>>

\* ------------------------------------------------------------------------
\* GetProvider
\* ------------------------------------------------------------------------
GetProvider(t, name) ==
  /\ pc[t] = "idle"
  /\ Goes(t, "GetProvider", [name |-> name], "rlock")
  /\ UNCHANGED <<providers, mu, snapshot, result, cur, calls, accepted>>
  /\ UNCHANGED <<embVars, callVars, refVars, peerVars>>

\* variant: a missing name yields nil without an error
Lookup_NoError(m, name) ==
  IF name \in DOMAIN m
    THEN [val |-> m[name], err |-> NoErr]
    ELSE [val |-> Nil, err |-> NoErr]

\* the map lookup of GetProvider: <<provider, error>>
Lookup(m, name) ==
  IF name \in DOMAIN m
    THEN [val |-> m[name], err |-> NoErr]
    ELSE [val |-> Nil, err |-> ErrNotFound(name)]

\* variant: Chat forwards to the provider's Complete
Forward_Swapped(o) == IF o = "Chat" THEN "Complete" ELSE o

\* the provider method a registry operation forwards to
Forward(o) == o

\* after s.GetProvider returned r inside GetModel, Complete, Chat or Embed:
\* give up on an error, else call the provider's method
Dispatch(t, r) ==
  IF r.err # NoErr
    THEN /\ Returns(t, op[t], arg[t], Zero, r.err)
         /\ UNCHANGED <<cur, calls>>
    ELSE /\ Goes(t, op[t], arg[t], "calling")
         /\ cur' = [cur EXCEPT ![t] = r.val]
         /\ calls' = [calls EXCEPT ![t] =
                        Append(@, Call(r.val, Forward(op[t]), arg[t].modelID, arg[t].request))]

\* variant: the lookup of a missing name enters it into the map with a
\* nil provider
GetProviderLocked_InsertMissing(t) ==
  /\ pc[t] = "rlocked"
  /\ op[t] \in {"GetProvider", "GetModel", "Complete", "Chat", "Embed"}
  /\ LET r == Lookup(providers, arg[t].name)
     IN /\ IF op[t] = "GetProvider"
             THEN /\ Returns(t, op[t], arg[t], r.val, r.err)
                  /\ UNCHANGED <<cur, calls>>
             ELSE Dispatch(t, r)
        /\ providers' = (IF r.err # NoErr
                           THEN Put(providers, arg[t].name, Nil)
                           ELSE providers)
  /\ mu' = RUnlock(t)
  /\ UNCHANGED <<snapshot, result, accepted>>
  /\ UNCHANGED <<embVars, callVars, refVars, peerVars>>

\* under the read lock: the lookup and the deferred RUnlock; GetProvider
\* itself returns, the operations built on it go on with the result
GetProviderLocked(t) ==
  /\ pc[t] = "rlocked"
  /\ op[t] \in {"GetProvider", "GetModel", "Complete", "Chat", "Embed"}
  /\ LET r == Lookup(providers, arg[t].name)
     IN IF op[t] = "GetProvider"
          THEN /\ Returns(t, op[t], arg[t], r.val, r.err)
               /\ UNCHANGED <<cur, calls>>
          ELSE Dispatch(t, r)
  /\ mu' = RUnlock(t)
  /\ UNCHANGED <<providers, snapshot, result, accepted>>
  /\ UNCHANGED <<embVars, callVars, refVars, peerVars>>

\* ------------------------------------------------------------------------
\* GetModel, Complete, Chat, Embed
\* ------------------------------------------------------------------------
GetModel(t, name, modelID) ==
  /\ pc[t] = "idle"
  /\ Goes(t, "GetModel", [name |-> name, modelID |-> modelID, request |-> NoRequest], "rlock")
  /\ UNCHANGED <<providers, mu, snapshot, result, cur, calls, accepted>>
  /\ UNCHANGED <<embVars, callVars, refVars, peerVars>>

Complete(t, name, modelID, request) ==
  /\ pc[t] = "idle"
  /\ Goes(t, "Complete", [name |-> name, modelID |-> modelID, request |-> request], "rlock")
  /\ UNCHANGED <<providers, mu, snapshot, result, cur, calls, accepted>>
  /\ UNCHANGED <<embVars, callVars, refVars, peerVars>>

Chat(t, name, modelID, request) ==
  /\ pc[t] = "idle"
  /\ Goes(t, "Chat", [name |-> name, modelID |-> modelID, request |-> request], "rlock")
  /\ UNCHANGED <<providers, mu, snapshot, result, cur, calls, accepted>>
  /\ UNCHANGED <<embVars, callVars, refVars, peerVars>>

Embed(t, name, modelID, request) ==
  /\ pc[t] = "idle"
  /\ Goes(t, "Embed", [name |-> name, modelID |-> modelID, request |-> request], "rlock")
  /\ UNCHANGED <<providers, mu, snapshot, result, cur, calls, accepted>>
  /\ UNCHANGED <<embVars, callVars, refVars, peerVars>>

\* variant: the provider's error is dropped
DispatchReturn_DropError(t, ok) ==
  /\ pc[t] = "calling"
  /\ LET out == ProviderReturn(calls[t][Len(calls[t])], ok)
     IN /\ calls' = [calls EXCEPT ![t] = Returned(@, out)]
        /\ Returns(t, op[t], arg[t], out.val, NoErr)
  /\ cur' = [cur EXCEPT ![t] = Nil]
  /\ UNCHANGED <<providers, mu, snapshot, result, accepted>>
  /\ UNCHANGED <<embVars, callVars, refVars, peerVars>>

\* the provider's method returns (a value, or its own error) and the
\* registry operation returns the same pair
DispatchReturn(t, ok) ==
  /\ pc[t] = "calling"
  /\ LET out == ProviderReturn(calls[t][Len(calls[t])], ok)
     IN /\ calls' = [calls EXCEPT ![t] = Returned(@, out)]
        /\ Returns(t, op[t], arg[t], out.val, out.err)
  /\ cur' = [cur EXCEPT ![t] = Nil]
  /\ UNCHANGED <<providers, mu, snapshot, result, accepted>>
  /\ UNCHANGED <<embVars, callVars, refVars, peerVars>>

\* ------------------------------------------------------------------------
\* ListProviders
\* ------------------------------------------------------------------------
ListProviders(t) ==
  /\ pc[t] = "idle"
  /\ Goes(t, "ListProviders", <<>>, "rlock")
  /\ UNCHANGED <<providers, mu, snapshot, result, cur, calls, accepted>>
  /\ UNCHANGED <<embVars, callVars, refVars, peerVars>>

\* variant: the slice is made with length len(providers) instead of
\* length 0, so the names are appended after that many empty strings
NameLists_Prefilled(m) ==
  {[i \in 1..Cardinality(DOMAIN m) |-> ""] \o s : s \in Orders(DOMAIN m)}

\* the slices the loop over the map can build (map iteration order is not
\* specified)
NameLists(m) == Orders(DOMAIN m)

ListProvidersLocked(t) ==
  /\ pc[t] = "rlocked"
  /\ op[t] = "ListProviders"
  /\ \E names \in NameLists(providers) :
       Returns(t, op[t], arg[t], names, NoErr)
  /\ mu' = RUnlock(t)
  /\ UNCHANGED <<providers, snapshot, result, cur, calls, accepted>>
  /\ UNCHANGED <<embVars, callVars, refVars, peerVars>>

\* ------------------------------------------------------------------------
\* ListModels
\* ------------------------------------------------------------------------
ListModels(t) ==
  /\ pc[t] = "idle"
  /\ Goes(t, "ListModels", <<>>, "rlock")
  /\ UNCHANGED <<providers, mu, snapshot, result, cur, calls, accepted>>
  /\ UNCHANGED <<embVars, callVars, refVars, peerVars>>

\* variant: the read lock is kept (released by a defer that this model
\* never reaches while provider calls are made)
SnapshotRelease_Deferred(t) == mu

\* the lock state after the snapshot has been taken
SnapshotRelease(t) == RUnlock(t)

\* variant: the loop is left after its first iteration
LoopDone_First(snap, res) == DOMAIN snap = {} \/ DOMAIN res # {}

\* the range loop has visited every entry of the snapshot
LoopDone(snap, res) == DOMAIN res = DOMAIN snap

\* copy the map under the read lock, release the lock; an empty snapshot
\* skips the loop and returns the empty result
ListModelsSnapshot(t) ==
  /\ pc[t] = "rlocked"
  /\ op[t] = "ListModels"
  /\ snapshot' = [snapshot EXCEPT ![t] = providers]
  /\ result' = [result EXCEPT ![t] = EmptyMap]
  /\ mu' = SnapshotRelease(t)
  /\ IF LoopDone(providers, EmptyMap)
       THEN Returns(t, op[t], arg[t], EmptyMap, NoErr)
       ELSE Goes(t, op[t], arg[t], "loop")
  /\ UNCHANGED <<providers, cur, calls, accepted>>
  /\ UNCHANGED <<embVars, callVars, refVars, peerVars>>

\* variant: the loop ranges over the registry's map, not over the copy
ListModelsCall_Live(t, name) ==
  /\ pc[t] = "loop"
  /\ name \in DOMAIN providers \ DOMAIN result[t]
  /\ cur' = [cur EXCEPT ![t] = providers[name]]
  /\ calls' = [calls EXCEPT ![t] =
                 Append(@, Call(providers[name], "ListModels", NoModel, NoRequest))]
  /\ pc' = [pc EXCEPT ![t] = "listing"]
  /\ UNCHANGED <<providers, mu, op, arg, ret, snapshot, result, accepted>>
  /\ UNCHANGED <<embVars, callVars, refVars, peerVars>>

\* one iteration starts: provider.ListModels(ctx) is called for an entry
\* of the snapshot that has not been visited
ListModelsCall(t, name) ==
  /\ pc[t] = "loop"
  /\ name \in DOMAIN snapshot[t] \ DOMAIN result[t]
  /\ cur' = [cur EXCEPT ![t] = snapshot[t][name]]
  /\ calls' = [calls EXCEPT ![t] =
                 Append(@, Call(snapshot[t][name], "ListModels", NoModel, NoRequest))]
  /\ pc' = [pc EXCEPT ![t] = "listing"]
  /\ UNCHANGED <<providers, mu, op, arg, ret, snapshot, result, accepted>>
  /\ UNCHANGED <<embVars, callVars, refVars, peerVars>>

\* variant: a failed listing is skipped and the loop goes on
ListModelsFailed_Skip(t, name, res, cause) ==
  LET skipped == Put(res, name, <<>>)
  IN /\ result' = [result EXCEPT ![t] = skipped]
     /\ IF DOMAIN skipped = DOMAIN snapshot[t]
          THEN Returns(t, op[t], arg[t], skipped, NoErr)
          ELSE Goes(t, op[t], arg[t], "loop")

\* variant: the error names another provider of the snapshot, if there is
\* one
ListModelsFailed_WrongName(t, name, res, cause) ==
  LET others == DOMAIN snapshot[t] \ {name}
      named == IF others = {} THEN name ELSE CHOOSE n \in others : TRUE
  IN /\ Returns(t, op[t], arg[t], NilMap, ErrListModels(named, cause))
     /\ result' = [result EXCEPT ![t] = res]

\* what ListModels does with a failed listing call
ListModelsFailed(t, name, res, cause) ==
  /\ Returns(t, op[t], arg[t], NilMap, ErrListModels(name, cause))
  /\ result' = [result EXCEPT ![t] = res]

\* the call returns: models (ok) or an error
ListModelsReturn(t, ok) ==
  /\ pc[t] = "listing"
  /\ LET out == ProviderReturn(calls[t][Len(calls[t])], ok)
         name == CHOOSE n \in DOMAIN snapshot[t] \ DOMAIN result[t] :
                   snapshot[t][n] = cur[t]
     IN /\ calls' = [calls EXCEPT ![t] = Returned(@, out)]
        /\ IF out.err # NoErr
             THEN ListModelsFailed(t, name, result[t], out.err)
             ELSE LET res == Put(result[t], name, out.val)
                  IN /\ result' = [result EXCEPT ![t] = res]
                     /\ IF LoopDone(snapshot[t], res)
                          THEN Returns(t, op[t], arg[t], res, NoErr)
                          ELSE Goes(t, op[t], arg[t], "loop")
  /\ cur' = [cur EXCEPT ![t] = Nil]
  /\ UNCHANGED <<providers, mu, snapshot, accepted>>
  /\ UNCHANGED <<embVars, callVars, refVars, peerVars>>

\* ------------------------------------------------------------------------
\* the caller takes the return values; the goroutine is free for a new call
\* ------------------------------------------------------------------------
Return(t) ==
  /\ pc[t] = "done"
  /\ pc' = [pc EXCEPT ![t] = "idle"]
  /\ op' = [op EXCEPT ![t] = "none"]
  /\ arg' = [arg EXCEPT ![t] = <<>>]
  /\ ret' = [ret EXCEPT ![t] = NoRet]
  /\ snapshot' = [snapshot EXCEPT ![t] = EmptyMap]
  /\ result' = [result EXCEPT ![t] = EmptyMap]
  /\ calls' = [calls EXCEPT ![t] = <<>>]
  /\ UNCHANGED <<providers, mu, cur, accepted>>
  /\ UNCHANGED <<embVars, callVars, refVars, peerVars>>

\* ------------------------------------------------------------------------
\* Specification of the registry
\* ------------------------------------------------------------------------
Init == InitRegistry /\ InitEmbedder(0) /\ InitRefs(FALSE)

Next ==
  \E t \in Threads :
    \/ \E p \in Instances \cup {Nil} : RegisterProvider(t, p)
    \/ Lock(t)
    \/ RegisterProviderLocked(t)
    \/ \E name \in LookupNames : GetProvider(t, name)
    \/ ListProviders(t)
    \/ ListModels(t)
    \/ RLock(t)
    \/ GetProviderLocked(t)
    \/ ListProvidersLocked(t)
    \/ ListModelsSnapshot(t)
    \/ \E name \in LookupNames : ListModelsCall(t, name)
    \/ \E ok \in BOOLEAN : ListModelsReturn(t, ok)
    \/ Return(t)

Spec == Init /\ [][Next]_vars

\* ------------------------------------------------------------------------
\* Specification of the pass-through operations
\* ------------------------------------------------------------------------
NextDispatch ==
  \E t \in Threads :
    \/ \E p \in Instances \cup {Nil} : RegisterProvider(t, p)
    \/ Lock(t)
    \/ RegisterProviderLocked(t)
    \/ \E name \in LookupNames, m \in ModelIDs : GetModel(t, name, m)
    \/ \E name \in LookupNames, m \in ModelIDs, r \in Requests : Complete(t, name, m, r)
    \/ \E name \in LookupNames, m \in ModelIDs, r \in Requests : Chat(t, name, m, r)
    \/ \E name \in LookupNames, m \in ModelIDs, r \in Requests : Embed(t, name, m, r)
    \/ RLock(t)
    \/ GetProviderLocked(t)
    \/ \E ok \in BOOLEAN : DispatchReturn(t, ok)
    \/ Return(t)

SpecDispatch == Init /\ [][NextDispatch]_vars

\* ------------------------------------------------------------------------
\* Specification of the whole service: every operation of the registry
\* ------------------------------------------------------------------------
\* the providers registered and the names looked up: two instances with the
\* same name, so that a registration can meet a registered name and a lookup
\* can miss or hit
ServiceProviders == {"pa1", "pa2"}

ServiceNames == {"a"}

NextService ==
  \E t \in Threads :
    \/ \E p \in ServiceProviders : RegisterProvider(t, p)
    \/ Lock(t)
    \/ RegisterProviderLocked(t)
    \/ \E name \in ServiceNames : GetProvider(t, name)
    \/ ListProviders(t)
    \/ ListModels(t)
    \/ \E name \in ServiceNames, m \in ModelIDs : GetModel(t, name, m)
    \/ \E name \in ServiceNames, m \in ModelIDs, r \in Requests : Complete(t, name, m, r)
    \/ \E name \in ServiceNames, m \in ModelIDs, r \in Requests : Chat(t, name, m, r)
    \/ \E name \in ServiceNames, m \in ModelIDs, r \in Requests : Embed(t, name, m, r)
    \/ RLock(t)
    \/ GetProviderLocked(t)
    \/ ListProvidersLocked(t)
    \/ ListModelsSnapshot(t)
    \/ \E name \in ServiceNames : ListModelsCall(t, name)
    \/ \E ok \in BOOLEAN : ListModelsReturn(t, ok)
    \/ \E ok \in BOOLEAN : DispatchReturn(t, ok)
    \/ Return(t)

SpecService == Init /\ [][NextService]_vars

\* ------------------------------------------------------------------------
\* Specification of the lock protocol under fair scheduling: the operations
\* with more than one return path, RegisterProvider and GetProvider, with the
\* order in which sync.RWMutex serves the goroutines that wait
\* ------------------------------------------------------------------------
\* the names looked up under the lock protocol: one that two of the
\* providers registered carry, so that a registration can fail, and one
\* that none carries, so that a lookup can
LockNames == {"a", "b"}

NextLock ==
  \E t \in Threads :
    \/ \E p \in ServiceProviders : RegisterProvider(t, p)
    \/ LockAnnounce(t)
    \/ mu.pending = t /\ Lock(t)
    \/ RegisterProviderLocked(t)
    \/ \E name \in LockNames : GetProvider(t, name)
    \/ mu.pending = NoThread /\ RLock(t)
    \/ RLockWait(t)
    \/ RLockResume(t)
    \/ GetProviderLocked(t)
    \/ Return(t)

\* the variables the lock steps change
lockVars == <<pc, mu>>

\* Every goroutine inside Lock, RLock or a lock section is scheduled (weak
\* fairness): an RLock call goes on, into the lock or into the wait; an
\* announced writer gets the lock once the readers have left; a reader that
\* was let in resumes; a lock section reaches its deferred Unlock or
\* RUnlock.  The writers compete for the announcement through a sync.Mutex,
\* which hands the lock to a goroutine that has waited (its starvation
\* mode): strong fairness of LockAnnounce.  Nothing obliges a caller to
\* call.
FairLock ==
  \A t \in Threads :
    /\ SF_lockVars(LockAnnounce(t))
    /\ WF_lockVars(mu.pending = t /\ Lock(t))
    /\ WF_lockVars((mu.pending = NoThread /\ RLock(t)) \/ RLockWait(t))
    /\ WF_lockVars(RLockResume(t))
    /\ WF_lockVars(RegisterProviderLocked(t))
    /\ WF_lockVars(GetProviderLocked(t))

SpecLockFair == Init /\ [][NextLock]_vars /\ FairLock

\* ------------------------------------------------------------------------
\* LLMEmbedder
\* ------------------------------------------------------------------------
\* Embedding values are integers standing for the floats; the nil vector of
\* a results slot never written is the empty sequence (no backend vector of
\* this model is empty).
NilVec == <<>>

\* the [][]float64 BatchEmbed returns: the results slice, or the nil slice
\* next to an error
Slice(items) == [nil |-> FALSE, items |-> items]
NilResults == [nil |-> TRUE, items |-> <<>>]

\* content items: a string, a []byte, a fmt.Stringer and an int
StringContent(v) == [kind |-> "string", value |-> v]
BytesContent(v) == [kind |-> "bytes", value |-> v]
StringerContent(v) == [kind |-> "stringer", value |-> v]
IntContent(v) == [kind |-> "int", value |-> v]

\* the items of a batch: two that embed to different vectors, one whose
\* vector has another length than the expected dimension, one whose backend
\* call fails, one of an unsupported type
BatchContents ==
  {StringContent("x"), BytesContent("y"), StringContent("z"),
   StringerContent("w"), IntContent(123)}

ErrUnsupported == [kind |-> "unsupported content type"]
ErrEmbedding(cause) == [kind |-> "failed to get embedding: %w", cause |-> cause]
ErrDimension(want, got) ==
  [kind |-> "expected embedding dimension %d, got %d", want |-> want, got |-> got]
ErrBatch(cause) == [kind |-> "batch embedding failed: %w", cause |-> cause]
ErrBackend == [kind |-> "backend failure"]

\* e.service.Embed: the backend is a function of the request input
ServiceEmbed(text) ==
  CASE text = "x" -> [val |-> <<1, 2>>, err |-> NoErr]
    [] text = "y" -> [val |-> <<3, 4>>, err |-> NoErr]
    [] text = "z" -> [val |-> <<5>>, err |-> NoErr]
    [] OTHER      -> [val |-> NilVec, err |-> ErrBackend]

\* the type switch of Embed: the text of a content item, if it has one
Supported(c) == c.kind \in {"string", "bytes", "stringer"}

TextContent(c) == c.value

\* variant: the length of the vector is not compared with the dimension
CheckedEmbedding_NoCheck(response, d) ==
  IF response.err # NoErr
    THEN [val |-> NilVec, err |-> ErrEmbedding(response.err)]
    ELSE [val |-> response.val, err |-> NoErr]

\* what Embed makes of the service's response, with expected dimension d
CheckedEmbedding(response, d) ==
  IF response.err # NoErr
    THEN [val |-> NilVec, err |-> ErrEmbedding(response.err)]
    ELSE IF d > 0 /\ Len(response.val) # d
      THEN [val |-> NilVec, err |-> ErrDimension(d, Len(response.val))]
      ELSE [val |-> response.val, err |-> NoErr]

\* LLMEmbedder.Embed with expected dimension d
EmbedContent(c, d) ==
  IF ~Supported(c)
    THEN [val |-> NilVec, err |-> ErrUnsupported]
    ELSE CheckedEmbedding(ServiceEmbed(TextContent(c)), d)

\* SetMaxPoolSize
\* variant: a non-positive size leaves the ceiling as it is
SetMaxPoolSize_KeepOnInvalid(size) ==
  /\ maxPoolSize' = (IF size > 0 THEN size ELSE maxPoolSize)
  /\ UNCHANGED <<dimensions, bpc, contents, results, errs, capacity, semaphore,
                 done, wpc, spawned, received, batchRet>>
  /\ UNCHANGED <<regVars, epc, econtent, requests, embedRet, refVars, peerVars>>

\* variant: the size is stored without looking at its sign
SetMaxPoolSize_Unchecked(size) ==
  /\ maxPoolSize' = size
  /\ UNCHANGED <<dimensions, bpc, contents, results, errs, capacity, semaphore,
                 done, wpc, spawned, received, batchRet>>
  /\ UNCHANGED <<regVars, epc, econtent, requests, embedRet, refVars, peerVars>>

\* variant: the check is size >= 0, so zero is stored
SetMaxPoolSize_ZeroAllowed(size) ==
  /\ maxPoolSize' = (IF size >= 0 THEN size ELSE DefaultPoolSize)
  /\ UNCHANGED <<dimensions, bpc, contents, results, errs, capacity, semaphore,
                 done, wpc, spawned, received, batchRet>>
  /\ UNCHANGED <<regVars, epc, econtent, requests, embedRet, refVars, peerVars>>

\* SetMaxPoolSize; the specification that keeps the history of the calls says
\* what becomes of setLog
SetMaxPoolSize(size) ==
  /\ maxPoolSize' = (IF size > 0 THEN size ELSE DefaultPoolSize)
  /\ UNCHANGED <<dimensions, bpc, contents, results, errs, capacity, semaphore,
                 done, wpc, spawned, received, batchRet>>
  /\ UNCHANGED <<regVars, epc, econtent, requests, embedRet, refVars, peerVars>>

\* variant: the scan does not stop at the first error, the last one in
\* index order is kept
FirstError_Last(es) ==
  LET failed == {i \in DOMAIN es : es[i] # NoErr}
  IN IF failed = {}
       THEN NoErr
       ELSE es[CHOOSE i \in failed : \A j \in failed : j <= i]

\* the final scan of errs: the first error in index order, wrapped, with a
\* nil result; the results slice when there is none
FirstError(es) ==
  LET failed == {i \in DOMAIN es : es[i] # NoErr}
  IN IF failed = {}
       THEN NoErr
       ELSE es[CHOOSE i \in failed : \A j \in failed : i <= j]

\* variant: the results slice is returned next to the error
BatchOutcome_Partial(rs, es) ==
  [val |-> Slice(rs),
   err |-> IF FirstError(es) # NoErr THEN ErrBatch(FirstError(es)) ELSE NoErr]

BatchOutcome(rs, es) ==
  IF FirstError(es) # NoErr
    THEN [val |-> NilResults, err |-> ErrBatch(FirstError(es))]
    ELSE [val |-> Slice(rs), err |-> NoErr]

\* variant: the loops are entered whatever the number of items, as a loop
\* that tests its condition at the end does
BatchEmbed_AlwaysLoops(cs) ==
  /\ bpc = "idle"
  /\ contents' = cs
  /\ results' = [i \in DOMAIN cs |-> NilVec]
  /\ errs' = [i \in DOMAIN cs |-> NoErr]
  /\ capacity' = maxPoolSize
  /\ semaphore' = 0
  /\ done' = <<>>
  /\ wpc' = [i \in DOMAIN cs |-> "unstarted"]
  /\ spawned' = 0
  /\ received' = 0
  /\ bpc' = (IF Len(cs) = 0 THEN "wait" ELSE "spawn")
  /\ batchRet' = NoOut
  /\ UNCHANGED <<maxPoolSize, dimensions>>
  /\ UNCHANGED <<regVars, callVars, refVars, peerVars>>

\* BatchEmbed is called: slices and channels are made; with no item both
\* loops are skipped and the call returns
BatchEmbed(cs) ==
  /\ bpc = "idle"
  /\ contents' = cs
  /\ results' = [i \in DOMAIN cs |-> NilVec]
  /\ errs' = [i \in DOMAIN cs |-> NoErr]
  /\ capacity' = maxPoolSize
  /\ semaphore' = 0
  /\ done' = <<>>
  /\ wpc' = [i \in DOMAIN cs |-> "unstarted"]
  /\ spawned' = 0
  /\ received' = 0
  /\ IF Len(cs) = 0
       THEN /\ bpc' = "returned"
            /\ batchRet' = BatchOutcome(<<>>, <<>>)
       ELSE /\ bpc' = "spawn"
            /\ batchRet' = NoOut
  /\ UNCHANGED <<maxPoolSize, dimensions>>
  /\ UNCHANGED <<regVars, callVars, refVars, peerVars>>

\* one iteration of the spawning loop: go func(idx, c)
Spawn ==
  /\ bpc = "spawn"
  /\ spawned' = spawned + 1
  /\ wpc' = [wpc EXCEPT ![spawned + 1] = "acquire"]
  /\ bpc' = (IF spawned + 1 = Len(contents) THEN "wait" ELSE "spawn")
  /\ UNCHANGED <<maxPoolSize, dimensions, contents, results, errs, capacity,
                 semaphore, done, received, batchRet>>
  /\ UNCHANGED <<regVars, callVars, refVars, peerVars>>

\* variant: the worker does not wait for room in the semaphore
WorkerAcquire_NoWait(idx) ==
  /\ idx \in DOMAIN wpc
  /\ wpc[idx] = "acquire"
  /\ semaphore' = semaphore + 1
  /\ wpc' = [wpc EXCEPT ![idx] = "embed"]
  /\ UNCHANGED <<maxPoolSize, dimensions, bpc, contents, results, errs, capacity,
                 done, spawned, received, batchRet>>
  /\ UNCHANGED <<regVars, callVars, refVars, peerVars>>

\* worker idx: semaphore <- struct{}{}
WorkerAcquire(idx) ==
  /\ idx \in DOMAIN wpc
  /\ wpc[idx] = "acquire"
  /\ semaphore < capacity
  /\ semaphore' = semaphore + 1
  /\ wpc' = [wpc EXCEPT ![idx] = "embed"]
  /\ UNCHANGED <<maxPoolSize, dimensions, bpc, contents, results, errs, capacity,
                 done, spawned, received, batchRet>>
  /\ UNCHANGED <<regVars, callVars, refVars, peerVars>>

\* variant: the vector is put into the first free slot, as appending in
\* completion order does
Store_Append(arr, idx, v) ==
  LET free == {i \in DOMAIN arr : arr[i] = NilVec}
  IN [arr EXCEPT ![CHOOSE i \in free : \A j \in free : i <= j] = v]

\* results[idx] = embedding
Store(arr, idx, v) == [arr EXCEPT ![idx] = v]

\* variant: the release and the completion signal are not deferred, so a
\* worker whose Embed failed returns without them
WorkerEmbed_NoDefer(idx) ==
  /\ idx \in DOMAIN wpc
  /\ wpc[idx] = "embed"
  /\ LET r == EmbedContent(contents[idx], dimensions)
     IN IF r.err # NoErr
          THEN /\ errs' = [errs EXCEPT ![idx] = r.err]
               /\ wpc' = [wpc EXCEPT ![idx] = "finished"]
               /\ UNCHANGED results
          ELSE /\ results' = [results EXCEPT ![idx] = r.val]
               /\ wpc' = [wpc EXCEPT ![idx] = "release"]
               /\ UNCHANGED errs
  /\ UNCHANGED <<maxPoolSize, dimensions, bpc, contents, capacity, semaphore,
                 done, spawned, received, batchRet>>
  /\ UNCHANGED <<regVars, callVars, refVars, peerVars>>

\* variant: a worker that finds an error of another item does not call
\* Embed for its own
WorkerEmbed_CancelOnFailure(idx) ==
  /\ idx \in DOMAIN wpc
  /\ wpc[idx] = "embed"
  /\ LET r == EmbedContent(contents[idx], dimensions)
     IN IF \E j \in DOMAIN errs : errs[j] # NoErr
          THEN UNCHANGED <<results, errs>>
          ELSE IF r.err # NoErr
            THEN /\ errs' = [errs EXCEPT ![idx] = r.err]
                 /\ UNCHANGED results
            ELSE /\ results' = Store(results, idx, r.val)
                 /\ UNCHANGED errs
  /\ wpc' = [wpc EXCEPT ![idx] = "release"]
  /\ UNCHANGED <<maxPoolSize, dimensions, bpc, contents, capacity, semaphore,
                 done, spawned, received, batchRet>>
  /\ UNCHANGED <<regVars, callVars, refVars, peerVars>>

\* worker idx: e.Embed returns and its outcome is stored
WorkerEmbed(idx) ==
  /\ idx \in DOMAIN wpc
  /\ wpc[idx] = "embed"
  /\ LET r == EmbedContent(contents[idx], dimensions)
     IN IF r.err # NoErr
          THEN /\ errs' = [errs EXCEPT ![idx] = r.err]
               /\ UNCHANGED results
          ELSE /\ results' = Store(results, idx, r.val)
               /\ UNCHANGED errs
  /\ wpc' = [wpc EXCEPT ![idx] = "release"]
  /\ UNCHANGED <<maxPoolSize, dimensions, bpc, contents, capacity, semaphore,
                 done, spawned, received, batchRet>>
  /\ UNCHANGED <<regVars, callVars, refVars, peerVars>>

\* variant: the permit is given back on the success path only
WorkerRelease_OnSuccessOnly(idx) ==
  /\ idx \in DOMAIN wpc
  /\ wpc[idx] = "release"
  /\ IF errs[idx] = NoErr
       THEN semaphore > 0 /\ semaphore' = semaphore - 1
       ELSE UNCHANGED semaphore
  /\ wpc' = [wpc EXCEPT ![idx] = "signal"]
  /\ UNCHANGED <<maxPoolSize, dimensions, bpc, contents, results, errs, capacity,
                 done, spawned, received, batchRet>>
  /\ UNCHANGED <<regVars, callVars, refVars, peerVars>>

\* worker idx, deferred: <-semaphore
WorkerRelease(idx) ==
  /\ idx \in DOMAIN wpc
  /\ wpc[idx] = "release"
  /\ semaphore > 0
  /\ semaphore' = semaphore - 1
  /\ wpc' = [wpc EXCEPT ![idx] = "signal"]
  /\ UNCHANGED <<maxPoolSize, dimensions, bpc, contents, results, errs, capacity,
                 done, spawned, received, batchRet>>
  /\ UNCHANGED <<regVars, callVars, refVars, peerVars>>

\* variant: the completion signal is sent on the success path only
WorkerSignal_OnSuccessOnly(idx) ==
  /\ idx \in DOMAIN wpc
  /\ wpc[idx] = "signal"
  /\ IF errs[idx] = NoErr
       THEN /\ Len(done) < Len(contents)
            /\ done' = Append(done, idx)
       ELSE UNCHANGED done
  /\ wpc' = [wpc EXCEPT ![idx] = "finished"]
  /\ UNCHANGED <<maxPoolSize, dimensions, bpc, contents, results, errs, capacity,
                 semaphore, spawned, received, batchRet>>
  /\ UNCHANGED <<regVars, callVars, refVars, peerVars>>

\* worker idx, deferred: done <- idx
WorkerSignal(idx) ==
  /\ idx \in DOMAIN wpc
  /\ wpc[idx] = "signal"
  /\ Len(done) < Len(contents)
  /\ done' = Append(done, idx)
  /\ wpc' = [wpc EXCEPT ![idx] = "finished"]
  /\ UNCHANGED <<maxPoolSize, dimensions, bpc, contents, results, errs, capacity,
                 semaphore, spawned, received, batchRet>>
  /\ UNCHANGED <<regVars, callVars, refVars, peerVars>>

\* variant: the call waits for one completion signal, not for one per item
Receive_One ==
  /\ bpc = "wait"
  /\ done # <<>>
  /\ done' = Tail(done)
  /\ received' = received + 1
  /\ bpc' = "returned"
  /\ batchRet' = BatchOutcome(results, errs)
  /\ UNCHANGED <<maxPoolSize, dimensions, contents, results, errs, capacity,
                 semaphore, wpc, spawned>>
  /\ UNCHANGED <<regVars, callVars, refVars, peerVars>>

\* one iteration of the waiting loop: <-done; after the last one the errs
\* are scanned and BatchEmbed returns
Receive ==
  /\ bpc = "wait"
  /\ done # <<>>
  /\ done' = Tail(done)
  /\ received' = received + 1
  /\ IF received + 1 = Len(contents)
       THEN /\ bpc' = "returned"
            /\ batchRet' = BatchOutcome(results, errs)
       ELSE UNCHANGED <<bpc, batchRet>>
  /\ UNCHANGED <<maxPoolSize, dimensions, contents, results, errs, capacity,
                 semaphore, wpc, spawned>>
  /\ UNCHANGED <<regVars, callVars, refVars, peerVars>>

\* the caller takes BatchEmbed's return values; nothing of the call is kept
BatchReturn ==
  /\ bpc = "returned"
  /\ \A idx \in DOMAIN wpc : wpc[idx] = "finished"
  /\ bpc' = "idle"
  /\ contents' = <<>>
  /\ results' = <<>>
  /\ errs' = <<>>
  /\ capacity' = 0
  /\ semaphore' = 0
  /\ done' = <<>>
  /\ wpc' = <<>>
  /\ spawned' = 0
  /\ received' = 0
  /\ batchRet' = NoOut
  /\ UNCHANGED <<maxPoolSize, dimensions>>
  /\ UNCHANGED <<regVars, callVars, refVars, peerVars>>

\* ------------------------------------------------------------------------
\* Specification of the batch embedder
\* ------------------------------------------------------------------------
\* input sequences of at most MaxItems items
Batches == UNION {[1..n -> BatchContents] : n \in 0..MaxItems}

\* arguments given to SetMaxPoolSize
PoolSizes == {-1, 0, 1, 2}

\* the expected dimension the embedder is constructed with: the length of
\* the vector the backend returns
BatchDimension == Len(ServiceEmbed("x").val)

InitBatch == InitRegistry /\ InitEmbedder(BatchDimension) /\ InitRefs(FALSE)

\* The caller configures the embedder between its BatchEmbed calls: no step
\* of a running call reads maxPoolSize (the semaphore is made with it when the
\* call starts), so a SetMaxPoolSize during a call has the effect of the same
\* SetMaxPoolSize after it; SpecPool below takes them at any time.
NextBatch ==
  \/ bpc = "idle" /\ \E size \in PoolSizes : SetMaxPoolSize(size) /\ UNCHANGED setLog
  \/ bpc = "idle" /\ \E cs \in Batches : BatchEmbed(cs)
  \/ Spawn
  \/ \E idx \in 1..MaxItems : WorkerAcquire(idx)
  \/ \E idx \in 1..MaxItems : WorkerEmbed(idx)
  \/ \E idx \in 1..MaxItems : WorkerRelease(idx)
  \/ \E idx \in 1..MaxItems : WorkerSignal(idx)
  \/ Receive
  \/ BatchReturn

SpecBatch == InitBatch /\ [][NextBatch]_vars

\* ------------------------------------------------------------------------
\* Specification of the worker pool: BatchEmbed over items that differ only
\* in whether they embed, with SetMaxPoolSize called at any time
\* ------------------------------------------------------------------------
PoolContents == {StringContent("x"), IntContent(123)}

PoolBatches == UNION {[1..n -> PoolContents] : n \in 0..MaxItems}

NextPool ==
  \/ \E size \in PoolSizes : SetMaxPoolSize(size) /\ UNCHANGED setLog
  \/ bpc = "idle" /\ \E cs \in PoolBatches : BatchEmbed(cs)
  \/ Spawn
  \/ \E idx \in 1..MaxItems : WorkerAcquire(idx)
  \/ \E idx \in 1..MaxItems : WorkerEmbed(idx)
  \/ \E idx \in 1..MaxItems : WorkerRelease(idx)
  \/ \E idx \in 1..MaxItems : WorkerSignal(idx)
  \/ Receive
  \/ BatchReturn

SpecPool == InitBatch /\ [][NextPool]_vars

\* The goroutines of a call are scheduled fairly and every Embed call
\* returns: each step of the orchestrating loops and of a worker is taken
\* when it stays possible.  Nothing obliges the caller to call.
FairPool ==
  /\ WF_vars(Spawn)
  /\ WF_vars(Receive)
  /\ \A idx \in 1..MaxItems :
       /\ WF_vars(WorkerAcquire(idx))
       /\ WF_vars(WorkerEmbed(idx))
       /\ WF_vars(WorkerRelease(idx))
       /\ WF_vars(WorkerSignal(idx))

SpecPoolFair == SpecPool /\ FairPool

\* ------------------------------------------------------------------------
\* Specification of two BatchEmbed calls on one embedder.  The slices, the
\* channels and the workers of a call are locals of that call; the embedder
\* fields are shared.  The actions above are the steps of the call whose
\* locals are in bpc, contents, ..., batchRet; Switch turns to the other
\* call, so that the steps of the two calls interleave in every order.
\* ------------------------------------------------------------------------
\* the locals of the call whose goroutines are running
ThisCall ==
  [bpc |-> bpc, contents |-> contents, results |-> results, errs |-> errs,
   capacity |-> capacity, semaphore |-> semaphore, done |-> done, wpc |-> wpc,
   spawned |-> spawned, received |-> received, batchRet |-> batchRet]

\* variant: the semaphore is a field of the embedder, one for all calls
Switch_SharedSemaphore ==
  /\ other' = ThisCall
  /\ bpc' = other.bpc
  /\ contents' = other.contents
  /\ results' = other.results
  /\ errs' = other.errs
  /\ done' = other.done
  /\ wpc' = other.wpc
  /\ spawned' = other.spawned
  /\ received' = other.received
  /\ batchRet' = other.batchRet
  /\ UNCHANGED <<capacity, semaphore>>
  /\ UNCHANGED <<maxPoolSize, dimensions>>
  /\ UNCHANGED <<regVars, callVars, refVars>>

\* the goroutines of the other call run next: each call has the slices and
\* channels it made, the embedder's fields are the same for both
Switch ==
  /\ other' = ThisCall
  /\ bpc' = other.bpc
  /\ contents' = other.contents
  /\ results' = other.results
  /\ errs' = other.errs
  /\ capacity' = other.capacity
  /\ semaphore' = other.semaphore
  /\ done' = other.done
  /\ wpc' = other.wpc
  /\ spawned' = other.spawned
  /\ received' = other.received
  /\ batchRet' = other.batchRet
  /\ UNCHANGED <<maxPoolSize, dimensions>>
  /\ UNCHANGED <<regVars, callVars, refVars>>

\* batches of one or two items, embeddable or not
PairLengths == {1, 2}

PairBatches == UNION {[1..n -> PoolContents] : n \in PairLengths}

\* ceilings below and at the size of the batches
PairSizes == {1, 2}

NextPair ==
  \/ Switch
  \/ bpc = "idle" /\ \E size \in PairSizes : SetMaxPoolSize(size) /\ UNCHANGED setLog
  \/ bpc = "idle" /\ \E cs \in PairBatches : BatchEmbed(cs)
  \/ Spawn
  \/ \E idx \in 1..MaxItems : WorkerAcquire(idx)
  \/ \E idx \in 1..MaxItems : WorkerEmbed(idx)
  \/ \E idx \in 1..MaxItems : WorkerRelease(idx)
  \/ \E idx \in 1..MaxItems : WorkerSignal(idx)
  \/ Receive
  \/ BatchReturn

SpecPair == InitBatch /\ [][NextPair]_vars

\* ------------------------------------------------------------------------
\* LLMEmbedder.Embed called by itself, and the configuration of the pool
\* ------------------------------------------------------------------------
\* EmbeddingRequest{Input: textContent}
EmbeddingRequest(text) == [input |-> text]

\* variant: the default case of the type switch does not return, and the
\* request is made with the text still empty
EmbedCall_NoTypeCheck(c) ==
  /\ epc = "idle"
  /\ econtent' = c
  /\ requests' = <<EmbeddingRequest(IF Supported(c) THEN TextContent(c) ELSE "")>>
  /\ epc' = "calling"
  /\ embedRet' = NoEmbedRet
  /\ UNCHANGED setLog
  /\ UNCHANGED <<regVars, embVars, refVars, peerVars>>

\* Embed is called: the type switch, then the request is built and passed
\* to e.service.Embed
EmbedCall(c) ==
  /\ epc = "idle"
  /\ econtent' = c
  /\ IF Supported(c)
       THEN /\ requests' = <<EmbeddingRequest(TextContent(c))>>
            /\ epc' = "calling"
            /\ embedRet' = NoEmbedRet
       ELSE /\ requests' = <<>>
            /\ epc' = "returned"
            /\ embedRet' = [val |-> NilVec, err |-> ErrUnsupported]
  /\ UNCHANGED setLog
  /\ UNCHANGED <<regVars, embVars, refVars, peerVars>>

\* e.service.Embed returns; the error and the dimension are checked and
\* Embed returns
EmbedResponse ==
  /\ epc = "calling"
  /\ embedRet' = CheckedEmbedding(ServiceEmbed(requests[Len(requests)].input),
                                  dimensions)
  /\ epc' = "returned"
  /\ UNCHANGED <<econtent, requests, setLog>>
  /\ UNCHANGED <<regVars, embVars, refVars, peerVars>>

\* the caller takes Embed's return values
EmbedReturn ==
  /\ epc = "returned"
  /\ epc' = "idle"
  /\ econtent' = NoContent
  /\ requests' = <<>>
  /\ embedRet' = NoEmbedRet
  /\ UNCHANGED setLog
  /\ UNCHANGED <<regVars, embVars, refVars, peerVars>>

\* the expected dimensions an embedder is constructed with: none, and the
\* lengths around those of the backend's vectors
EmbedDimensions == {-1, 0, 1, 2, 3}

\* arguments given to SetMaxPoolSize
SetSizes == {-1, 0, 2, 5}

InitEmbed ==
  InitRegistry /\ InitRefs(FALSE) /\ \E d \in EmbedDimensions : InitEmbedder(d)

NextEmbedder ==
  \/ /\ Len(setLog) < MaxSets
     /\ \E size \in SetSizes : SetMaxPoolSize(size) /\ setLog' = Append(setLog, size)
  \/ \E c \in BatchContents : EmbedCall(c)
  \/ EmbedResponse
  \/ EmbedReturn

SpecEmbedder == InitEmbed /\ [][NextEmbedder]_vars

\* ------------------------------------------------------------------------
\* Allocation and sharing of the values returned to callers.  A slice or a
\* map is an object of the heap: its kind, the addresses of the slices it
\* holds, and whether a caller has written to it.  Calls run one at a time
\* and succeed; a failed call returns nil.
\* ------------------------------------------------------------------------
\* in the heap of a provider that keeps its slices: mockProvider.models,
\* and the vector the embedFunc of the tests returns
KeptModels == 1
KeptVector == 2

\* make(...): a new object at the next address
New(kind, refs) == [kind |-> kind, refs |-> refs, written |-> FALSE]

Alloc(h, kind, refs) == Append(h, New(kind, refs))

\* the slice a provider returns from ListModels or Embed, as <<heap,
\* address>>: the one it keeps, or one built for the call
Provided(h, kind) ==
  IF keeps
    THEN <<h, IF kind = "models" THEN KeptModels ELSE KeptVector>>
    ELSE <<Alloc(h, kind, <<>>), Len(h) + 1>>

\* variant: the slice is copied before it is handed on
HandedOn_Copy(pr) == <<Alloc(pr[1], pr[1][pr[2]].kind, <<>>), Len(pr[1]) + 1>>

\* result[name] = models, return response.Embedding, results[idx] =
\* embedding: the provider's slice itself is handed on
HandedOn(pr) == pr

\* the caller receives the value at address a from operation o
Gives(o, a) == given' = Append(given, [op |-> o, root |-> a])

\* the addresses a returned value reaches: itself and the slices it holds
Reach(h, a) == {a} \cup {h[a].refs[i] : i \in DOMAIN h[a].refs}

\* service.ListProviders: the name slice is made by the call
ListProvidersAlloc ==
  /\ Len(given) < MaxReturns
  /\ heap' = Alloc(heap, "names", <<>>)
  /\ Gives("ListProviders", Len(heap) + 1)
  /\ UNCHANGED keeps
  /\ UNCHANGED <<regVars, embVars, callVars, peerVars>>

\* service.ListModels over one registered provider: the result map is made
\* by the call and holds the slice the provider returned
ListModelsAlloc ==
  /\ Len(given) < MaxReturns
  /\ LET models == HandedOn(Provided(heap, "models"))
     IN /\ heap' = Alloc(models[1], "map", <<models[2]>>)
        /\ Gives("ListModels", Len(models[1]) + 1)
  /\ UNCHANGED keeps
  /\ UNCHANGED <<regVars, embVars, callVars, peerVars>>

\* LLMEmbedder.Embed: the vector of the response is returned
EmbedAlloc ==
  /\ Len(given) < MaxReturns
  /\ LET embedding == HandedOn(Provided(heap, "vector"))
     IN /\ heap' = embedding[1]
        /\ Gives("Embed", embedding[2])
  /\ UNCHANGED keeps
  /\ UNCHANGED <<regVars, embVars, callVars, peerVars>>

\* the workers of a batch: each stores the vector its Embed returned in its
\* slot of the results slice at address res
RECURSIVE StoreAll(_, _, _)
StoreAll(h, res, n) ==
  IF n = 0
    THEN h
    ELSE LET embedding == HandedOn(Provided(h, "vector"))
             h1 == embedding[1]
         IN StoreAll([h1 EXCEPT ![res].refs = Append(h1[res].refs, embedding[2])],
                     res, n - 1)

\* LLMEmbedder.BatchEmbed over n items: the results slice is made by the
\* call and holds the vectors Embed returned
BatchEmbedAlloc(n) ==
  /\ Len(given) < MaxReturns
  /\ heap' = StoreAll(Alloc(heap, "vectors", <<>>), Len(heap) + 1, n)
  /\ Gives("BatchEmbed", Len(heap) + 1)
  /\ UNCHANGED keeps
  /\ UNCHANGED <<regVars, embVars, callVars, peerVars>>

\* a caller writes to a value it was given: to the returned slice or map,
\* or to a slice held in it
CallerWrites(r, a) ==
  /\ r \in DOMAIN given
  /\ a \in Reach(heap, given[r].root)
  /\ ~heap[a].written
  /\ Cardinality({b \in DOMAIN heap : heap[b].written}) < MaxWrites
  /\ heap' = [heap EXCEPT ![a].written = TRUE]
  /\ UNCHANGED <<keeps, given>>
  /\ UNCHANGED <<regVars, embVars, callVars, peerVars>>

\* the lengths of the batches: one item, and two, whose vectors may be one
BatchLengths == {1, 2}

InitAlias == InitRegistry /\ InitEmbedder(0) /\ \E k \in BOOLEAN : InitRefs(k)

NextAlias ==
  \/ ListProvidersAlloc
  \/ ListModelsAlloc
  \/ EmbedAlloc
  \/ \E n \in BatchLengths : BatchEmbedAlloc(n)
  \/ \E r \in DOMAIN given : \E a \in DOMAIN heap : CallerWrites(r, a)

SpecAlias == InitAlias /\ [][NextAlias]_vars

\* ------------------------------------------------------------------------
\* Properties
\* ------------------------------------------------------------------------
\* goroutine t takes a step
Acts(t) == pc'[t] # pc[t]

\* goroutine t returns from operation o in this step
ReturnsFrom(t, o) == Acts(t) /\ pc'[t] = "done" /\ op'[t] = o

Range(s) == {s[i] : i \in DOMAIN s}

AcceptedNames == {pr[1] : pr \in accepted}

InvalidProvider(p) == p = Nil \/ Name(p) = ""

\* C1: RegisterProvider with a nil provider or a provider with the empty
\* name returns an error (it never takes another step than the return), and
\* no step of such a call changes the provider map.
C1_InvalidRegistrationRejected ==
  [][\A t \in Threads :
       (Acts(t) /\ op'[t] = "RegisterProvider" /\ InvalidProvider(arg'[t].provider))
         => /\ pc'[t] = "done"
            /\ ret'[t].err = (IF arg'[t].provider = Nil THEN ErrProviderNil ELSE ErrEmptyName)
            /\ providers' = providers
            /\ accepted' = accepted]_vars

\* both rejections have happened on a non-empty registry
C1_Witness ==
  \E t, u \in Threads :
    /\ pc[t] = "done" /\ op[t] = "RegisterProvider"
    /\ arg[t].provider = Nil /\ ret[t].err = ErrProviderNil
    /\ pc[u] = "done" /\ op[u] = "RegisterProvider"
    /\ arg[u].provider = "pe" /\ ret[u].err = ErrEmptyName
    /\ DOMAIN providers = {"a", "b"}

\* C2: RegisterProvider of an already registered name fails with
\* AlreadyRegistered and leaves the map unchanged; the map always holds, for
\* each name, the one provider whose registration succeeded.
C2_DuplicateRejected ==
  [][/\ \A t \in Threads :
          (Acts(t) /\ pc[t] = "locked" /\ op[t] = "RegisterProvider"
             /\ Name(arg[t].provider) \in DOMAIN providers)
            => /\ pc'[t] = "done"
               /\ ret'[t].err = ErrAlreadyRegistered(Name(arg[t].provider))
               /\ providers' = providers
     /\ \A pr \in accepted' :
          /\ pr[1] \in DOMAIN providers'
          /\ providers'[pr[1]] = pr[2]
          /\ Lookup(providers', pr[1]) = [val |-> pr[2], err |-> NoErr]]_vars

\* a second instance of a registered name was rejected; the first one stays
C2_Witness ==
  \E t \in Threads :
    /\ pc[t] = "done" /\ op[t] = "RegisterProvider"
    /\ arg[t].provider = "pa2"
    /\ ret[t].err = ErrAlreadyRegistered("a")
    /\ providers["a"] = "pa1"

\* C3: GetProvider fails with NotFound for a name no successful registration
\* carried, and returns the registered instance otherwise.
C3_GetProviderExact ==
  [][\A t \in Threads :
       ReturnsFrom(t, "GetProvider")
         => LET name == arg'[t].name
            IN IF name \in AcceptedNames
                 THEN /\ ret'[t].err = NoErr
                      /\ <<name, ret'[t].val>> \in accepted
                 ELSE /\ ret'[t].err = ErrNotFound(name)
                      /\ ret'[t].val = Nil]_vars

\* one lookup found the second instance of "a", another missed "b"
C3_Witness ==
  \E t, u \in Threads :
    /\ pc[t] = "done" /\ op[t] = "GetProvider" /\ arg[t].name = "a"
    /\ ret[t] = [val |-> "pa2", err |-> NoErr]
    /\ pc[u] = "done" /\ op[u] = "GetProvider" /\ arg[u].name = "b"
    /\ ret[u] = [val |-> Nil, err |-> ErrNotFound("b")]

\* C4: ListProviders returns each successfully registered name exactly once
\* and nothing else.
C4_ListProvidersExact ==
  [][\A t \in Threads :
       ReturnsFrom(t, "ListProviders")
         => LET names == ret'[t].val
            IN /\ ret'[t].err = NoErr
               /\ Range(names) = AcceptedNames
               /\ Len(names) = Cardinality(AcceptedNames)]_vars

\* a list of two names, returned after a rejected registration
C4_Witness ==
  \E t, u \in Threads :
    /\ pc[t] = "done" /\ op[t] = "ListProviders"
    /\ ret[t].val = <<"b", "a">>
    /\ pc[u] = "done" /\ op[u] = "RegisterProvider" /\ ret[u].err # NoErr

\* every listing call of the log succeeded
AllListingsOk(log) == \A i \in DOMAIN log : log[i].out.err = NoErr

\* C5: when no listing call fails, ListModels returns a mapping from the
\* names registered at the snapshot to each provider's own model list; with
\* no registration since the snapshot its key set is what ListProviders
\* returns.
C5_ListModelsMapping ==
  [][\A t \in Threads :
       (ReturnsFrom(t, "ListModels") /\ AllListingsOk(calls'[t]))
         => LET m == ret'[t].val
            IN /\ ret'[t].err = NoErr
               /\ m # NilMap
               /\ DOMAIN m = DOMAIN snapshot'[t]
               /\ DOMAIN m \subseteq DOMAIN providers
               /\ \A n \in DOMAIN m : m[n] = ModelsOf(providers[n])
               /\ snapshot'[t] = providers
                    => \A names \in NameLists(providers) : Range(names) = DOMAIN m]_vars

\* the scenario of the tests: a:[M1,M2] and b:[M3]
C5_Witness ==
  \E t \in Threads :
    /\ pc[t] = "done" /\ op[t] = "ListModels"
    /\ ret[t].err = NoErr
    /\ DOMAIN ret[t].val = {"a", "b"}
    /\ ret[t].val["a"] = <<ModelInfo("M1", 1024), ModelInfo("M2", 2048)>>
    /\ ret[t].val["b"] = <<ModelInfo("M3", 4096)>>

\* C6: a failed listing call makes ListModels return an error and the nil
\* map, and it is the last provider call ListModels makes.
C6_ListModelsAborts ==
  [][\A t \in Threads :
       /\ (ReturnsFrom(t, "ListModels") /\ ~AllListingsOk(calls'[t]))
            => /\ ret'[t].err # NoErr
               /\ ret'[t].val = NilMap
       /\ op'[t] = "ListModels"
            => \A i \in DOMAIN calls'[t] :
                 i < Len(calls'[t]) => calls'[t][i].out.err = NoErr]_vars

\* the second of two listing calls failed: the first result is dropped
C6_Witness ==
  \E t \in Threads :
    /\ pc[t] = "done" /\ op[t] = "ListModels"
    /\ Len(calls[t]) = 2
    /\ calls[t][1].out.err = NoErr
    /\ calls[t][2].out.err # NoErr
    /\ DOMAIN result[t] # {}
    /\ ret[t].val = NilMap
    /\ ret[t].err # NoErr

\* goroutine t holds the registry lock
Holds(t) == mu.writer = t \/ t \in mu.readers

\* C7: during the loop of ListModels, and so while a listing call is in
\* flight, the goroutine does not hold the lock: a RegisterProvider waiting
\* for the write lock can take it unless some other goroutine holds the
\* lock, and then completes.
C7_ListingOutsideLock ==
  /\ \A t \in Threads : pc[t] \in {"loop", "listing"} => ~Holds(t)
  /\ \A t, u \in Threads :
       (/\ pc[t] = "listing"
        /\ pc[u] = "lock"
        /\ \A w \in Threads \ {t} : ~Holds(w))
         => ENABLED Lock(u)
  /\ \A u \in Threads :
       (pc[u] = "locked" /\ op[u] = "RegisterProvider")
         => ENABLED RegisterProviderLocked(u)

\* a registration completed while a listing call of a snapshot without that
\* name is in flight
C7_Witness ==
  \E t, u \in Threads :
    /\ pc[t] = "listing"
    /\ pc[u] = "done" /\ op[u] = "RegisterProvider" /\ ret[u].err = NoErr
    /\ Name(arg[u].provider) \notin DOMAIN snapshot[t]

DispatchOps == {"Complete", "Chat", "Embed"}

\* operation o of goroutine t is pure dispatch in this step: the lookup
\* step ends in NotFound without a provider call or starts the one call of
\* the registered provider's matching method with the given model and
\* request; the return step hands back what that call returned
PureDispatch(t, o) ==
  /\ (Acts(t) /\ op[t] = o /\ pc[t] = "rlocked")
       => LET name == arg[t].name
          IN IF name \in AcceptedNames
               THEN /\ pc'[t] = "calling"
                    /\ calls'[t] = <<Call(providers[name], o, arg[t].modelID, arg[t].request)>>
               ELSE /\ pc'[t] = "done"
                    /\ ret'[t] = [val |-> Zero, err |-> ErrNotFound(name)]
                    /\ calls'[t] = <<>>
  /\ (Acts(t) /\ op[t] = o /\ pc[t] = "calling")
       => /\ pc'[t] = "done"
          /\ Len(calls'[t]) = 1
          /\ calls'[t][1].out # Pending
          /\ calls'[t][1].out \in {ProviderReturn(calls[t][1], ok) : ok \in BOOLEAN}
          /\ ret'[t] = calls'[t][1].out

\* C8: Complete, Chat and Embed are pure dispatch.
C8_PureDispatch ==
  [][\A t \in Threads : \A o \in DispatchOps : PureDispatch(t, o)]_vars

\* a Chat returned its provider's error, an Embed missed its provider
C8_Witness ==
  \E t, u \in Threads :
    /\ pc[t] = "done" /\ op[t] = "Chat" /\ arg[t].name = "a"
    /\ ret[t].err = ProviderErr("pa2", "Chat")
    /\ pc[u] = "done" /\ op[u] = "Embed" /\ arg[u].name = "c"
    /\ ret[u].err = ErrNotFound("c")

\* C9: GetModel fails with NotFound without a provider call when the
\* provider is unknown, else returns what the provider's GetModel returns,
\* its error included.
C9_GetModelDelegates ==
  [][\A t \in Threads : PureDispatch(t, "GetModel")]_vars

\* a GetModel returned its provider's error, another missed its provider
C9_Witness ==
  \E t, u \in Threads :
    /\ pc[t] = "done" /\ op[t] = "GetModel" /\ arg[t].name = "b"
    /\ ret[t] = [val |-> Zero, err |-> ProviderErr("pb", "GetModel")]
    /\ Len(calls[t]) = 1
    /\ pc[u] = "done" /\ op[u] = "GetModel" /\ arg[u].name = "c"
    /\ ret[u].err = ErrNotFound("c")
    /\ calls[u] = <<>>

\* every item of the batch embeds when Embed is called on it directly
AllItemsEmbed ==
  \A i \in DOMAIN contents : EmbedContent(contents[i], dimensions).err = NoErr

\* C10: when every item embeds, BatchEmbed returns, whatever the order in
\* which the workers ran, a sequence as long as its input whose i-th vector
\* is the one Embed produces for the i-th item.
C10_BatchOrderPreserved ==
  (bpc = "returned" /\ AllItemsEmbed)
    => /\ batchRet.err = NoErr
       /\ ~batchRet.val.nil
       /\ Len(batchRet.val.items) = Len(contents)
       /\ \A i \in DOMAIN contents :
            batchRet.val.items[i] = EmbedContent(contents[i], dimensions).val

\* three items with different vectors, embedded under a ceiling of two
C10_Witness ==
  /\ bpc = "returned"
  /\ capacity = 2
  /\ contents = <<StringContent("x"), BytesContent("y"), StringContent("x")>>
  /\ batchRet = [val |-> Slice(<<<<1, 2>>, <<3, 4>>, <<1, 2>>>>), err |-> NoErr]

\* C11: when an item of the batch fails to embed (unsupported type, backend
\* failure or dimension mismatch), BatchEmbed returns the nil slice and an
\* error wrapping the Embed error of a failed item, whatever the other
\* workers stored; what it returns is always either the nil slice with an
\* error or, without error, a slice with every position filled.
C11_FailedBatchReturnsNil ==
  bpc = "returned"
    => /\ ~AllItemsEmbed
            => /\ batchRet.val = NilResults
               /\ \E i \in DOMAIN contents :
                    /\ EmbedContent(contents[i], dimensions).err # NoErr
                    /\ batchRet.err = ErrBatch(EmbedContent(contents[i], dimensions).err)
       /\ batchRet.err # NoErr => batchRet.val = NilResults
       /\ batchRet.err = NoErr
            => /\ ~batchRet.val.nil
               /\ Len(batchRet.val.items) = Len(contents)
               /\ \A i \in DOMAIN contents : batchRet.val.items[i] # NilVec

\* a batch whose first item was embedded and stored while the second has a
\* vector of the wrong length and the third is an integer
C11_Witness ==
  /\ bpc = "returned"
  /\ contents = <<StringContent("x"), StringContent("z"), IntContent(123)>>
  /\ results = <<<<1, 2>>, NilVec, NilVec>>
  /\ errs[2] = ErrDimension(2, 1)
  /\ errs[3] = ErrUnsupported
  /\ batchRet.val = NilResults
  /\ batchRet.err = ErrBatch(ErrDimension(2, 1))

\* the workers between acquiring a permit and releasing it
InFlight == {idx \in DOMAIN wpc : wpc[idx] \in {"embed", "release"}}

\* C12: during a BatchEmbed call the workers holding a permit, the only ones
\* that may be executing Embed, are never more than the capacity the
\* semaphore was made with, which is maxPoolSize as it was when the call
\* started, whatever the number of items and whatever maxPoolSize is set to
\* meanwhile.
C12_InFlightBounded ==
  [][/\ (bpc = "idle" /\ bpc' # "idle") => capacity' = maxPoolSize
     /\ (bpc # "idle" /\ bpc' # "idle") => capacity' = capacity
     /\ bpc' # "idle" => Cardinality(InFlight') <= capacity']_vars

\* three items under a ceiling of two: two workers hold the permits, the
\* third waits for one, and maxPoolSize has been set to another value since
\* the call started
C12_Witness ==
  /\ bpc # "idle"
  /\ Len(contents) = 3
  /\ capacity = 2
  /\ maxPoolSize # capacity
  /\ Cardinality(InFlight) = 2
  /\ \E idx \in DOMAIN wpc : wpc[idx] = "acquire"

\* C13: under fair scheduling and with Embed calls that return, every
\* BatchEmbed call returns, and by then every one of its workers has got a
\* permit, run and finished, for any number of items and any ceiling,
\* whether items fail or not.
C13_BatchEmbedReturns ==
  (bpc # "idle")
    ~> (bpc = "returned" /\ \A idx \in DOMAIN wpc : wpc[idx] = "finished")

\* a call over three items, one of them failing, has returned under a
\* ceiling of one
C13_Witness ==
  /\ bpc = "returned"
  /\ capacity = 1
  /\ Len(contents) = 3
  /\ \E i, j \in DOMAIN contents : errs[i] # NoErr /\ errs[j] = NoErr
  /\ \A idx \in DOMAIN wpc : wpc[idx] = "finished"

\* the argument of the latest SetMaxPoolSize call
LastSize == setLog[Len(setLog)]

\* C14, as amended: SetMaxPoolSize with a non-positive value sets the ceiling
\* to the default, whatever the ceiling was: after SetMaxPoolSize(5) and
\* SetMaxPoolSize(0) the ceiling is 10.
C14_NonPositiveResetsToDefault ==
  [][(setLog' # setLog /\ setLog'[Len(setLog')] <= 0)
       => maxPoolSize' = DefaultPoolSize]_vars

\* C14, as stated: SetMaxPoolSize with a non-positive value leaves the
\* ceiling at its current value.
C14_NonPositiveKeepsCeiling ==
  [][(setLog' # setLog /\ setLog'[Len(setLog')] <= 0)
       => maxPoolSize' = maxPoolSize]_vars

\* SetMaxPoolSize(5), then SetMaxPoolSize(0): the ceiling is the default
C14_Witness ==
  /\ setLog = <<5, 0>>
  /\ maxPoolSize = DefaultPoolSize
  /\ maxPoolSize # 5

\* C15: the ceiling of a new embedder is the default; after a
\* SetMaxPoolSize call it is the call's argument when that is positive and
\* the default otherwise, whatever the calls before were.
C15_CeilingFollowsLastSize ==
  maxPoolSize = (IF setLog = <<>> THEN DefaultPoolSize
                 ELSE IF LastSize > 0 THEN LastSize ELSE DefaultPoolSize)

\* the calls of the test: 5, then 0, then -1
C15_Witness ==
  /\ setLog = <<5, 0, -1>>
  /\ maxPoolSize = 10

\* the kinds of content that have a text
TextKinds == {"string", "bytes", "stringer"}

\* C16: Embed called with a string, a byte slice or a Stringer passes one
\* request to the service, with the content's text as input; called with
\* anything else it returns the unsupported-type error at once, and no
\* request is made then or later in the call.
C16_UnsupportedContentRejected ==
  [][/\ (epc = "idle" /\ epc' # "idle")
          => IF econtent'.kind \in TextKinds
               THEN /\ epc' = "calling"
                    /\ requests' = <<[input |-> econtent'.value]>>
               ELSE /\ epc' = "returned"
                    /\ embedRet' = [val |-> NilVec, err |-> ErrUnsupported]
                    /\ requests' = <<>>
     /\ (epc # "idle" /\ epc' # "idle") => requests' = requests]_vars

\* Embed(123) has returned the error without a request
C16_Witness ==
  /\ epc = "returned"
  /\ econtent = IntContent(123)
  /\ embedRet = [val |-> NilVec, err |-> ErrUnsupported]
  /\ requests = <<>>

\* C17: a call of Embed that passed the type switch has made exactly one
\* request when it returns; with a positive expected dimension it returns
\* the dimension error exactly when the length of the service's vector
\* differs from it, with a dimension of zero or less no length is refused,
\* and a vector that is not refused is returned as the service gave it.
C17_DimensionChecked ==
  [][(epc = "calling" /\ epc' = "returned")
       => /\ Len(requests') = 1
          /\ LET response == ServiceEmbed(requests'[1].input)
                 got == Len(response.val)
             IN IF response.err # NoErr
                  THEN embedRet' = [val |-> NilVec, err |-> ErrEmbedding(response.err)]
                  ELSE /\ (embedRet'.err = ErrDimension(dimensions, got))
                            <=> (dimensions > 0 /\ got # dimensions)
                       /\ embedRet'.err # NoErr
                            => (embedRet'.val = NilVec
                                /\ embedRet'.err = ErrDimension(dimensions, got))
                       /\ embedRet'.err = NoErr => embedRet'.val = response.val]_vars

\* expected dimension 3 against a vector of two elements
C17_Witness ==
  /\ epc = "returned"
  /\ dimensions = 3
  /\ econtent = StringContent("x")
  /\ requests = <<[input |-> "x"]>>
  /\ embedRet = [val |-> NilVec, err |-> ErrDimension(3, 2)]

\* the workers that have sent their completion signal
Finished == {idx \in DOMAIN wpc : wpc[idx] = "finished"}

\* C19: the signals in the done channel and those already received are one
\* for each worker that has finished, whether its Embed failed or not, and
\* no worker's signal is in the channel twice; a worker about to signal
\* finds room in the channel; BatchEmbed has returned only with a signal
\* received for every item, all workers having finished.
C19_OneSignalPerWorker ==
  /\ Len(done) + received = Cardinality(Finished)
  /\ \A i, j \in DOMAIN done : done[i] = done[j] => i = j
  /\ Range(done) \subseteq Finished
  /\ \A idx \in DOMAIN wpc : wpc[idx] = "signal" => Len(done) < Len(contents)
  /\ bpc = "returned" => (received = Len(contents) /\ Finished = DOMAIN contents)

\* the call has received two signals, one of a worker whose Embed failed,
\* and the third worker's signal waits in the channel
C19_Witness ==
  /\ bpc = "wait"
  /\ Len(contents) = 3
  /\ received = 2
  /\ done = <<2>>
  /\ errs[1] # NoErr
  /\ Finished = {1, 2, 3}

\* C20: between the making of the results and errs slices and the return,
\* slot i of either is written only by the step of worker i that follows its
\* Embed, which comes before that worker's signal; the orchestrating call
\* scans errs and returns results only when every worker has finished,
\* after which no slot changes.
C20_NoRaceOnSlots ==
  [][/\ (bpc # "idle" /\ bpc' # "idle")
          => \A i \in DOMAIN contents :
               (results'[i] # results[i] \/ errs'[i] # errs[i])
                 => /\ wpc[i] = "embed" /\ wpc'[i] = "release"
                    /\ \A j \in DOMAIN contents \ {i} :
                         results'[j] = results[j] /\ errs'[j] = errs[j]
     /\ (bpc # "returned" /\ bpc' = "returned")
          => /\ Finished = DOMAIN contents
             /\ batchRet' = BatchOutcome(results, errs)]_vars

\* three workers ran with permits for all of them, wrote their slots, and
\* the call has returned what they wrote
C20_Witness ==
  /\ bpc = "returned"
  /\ capacity = DefaultPoolSize
  /\ contents = <<StringContent("x"), StringContent("x"), StringContent("x")>>
  /\ Finished = {1, 2, 3}
  /\ batchRet.val = Slice(results)
  /\ \A i \in DOMAIN results : results[i] # NilVec

\* the objects a provider keeps
ProviderObjs == IF keeps THEN {KeptModels, KeptVector} ELSE {}

\* the returned values that reach the object at address b
Sharers(b) == {r \in DOMAIN given : b \in Reach(heap, given[r].root)}

\* the object at b is part of a provider's state or of more than one
\* returned value
Shared(b) == b \in ProviderObjs \/ Cardinality(Sharers(b)) > 1

\* C18, as amended: the name slice of ListProviders, the map of ListModels
\* and the outer slice of BatchEmbed are allocated by the call; the model
\* slices in the map and the vectors of Embed and BatchEmbed are the slices
\* the provider returned, new only when the provider builds one per call;
\* a caller's write changes a provider's state or another returned value
\* only through such a slice of a provider that keeps it.
C18_ContainersFreshSlicesHandedOn ==
  [][/\ Len(given') > Len(given)
          => LET g == given'[Len(given')]
                 held == {heap'[g.root].refs[i] : i \in DOMAIN heap'[g.root].refs}
             IN /\ g.op \in {"ListProviders", "ListModels", "BatchEmbed"}
                     => g.root > Len(heap)
                /\ g.op = "ListModels"
                     => \A m \in held :
                          IF keeps THEN m = KeptModels ELSE m > Len(heap)
                /\ g.op = "BatchEmbed"
                     => \A v \in held :
                          IF keeps THEN v = KeptVector ELSE v > Len(heap)
                /\ g.op = "Embed"
                     => IF keeps THEN g.root = KeptVector ELSE g.root > Len(heap)
     /\ \A b \in DOMAIN heap :
          (heap'[b] # heap[b] /\ Shared(b))
            => (keeps /\ b \in {KeptModels, KeptVector})]_vars

\* C18, as stated: everything a returned value reaches is allocated by the
\* call that returns it, and a caller's write never changes an object that
\* is part of a provider's state or of another returned value.
C18_ReturnedValuesFresh ==
  [][/\ Len(given') > Len(given)
          => \A a \in Reach(heap', given'[Len(given')].root) : a > Len(heap)
     /\ \A b \in DOMAIN heap : heap'[b] # heap[b] => ~Shared(b)]_vars

\* two Embed calls returned the vector the provider keeps, and a caller has
\* written to it; a ListModels call returned a map of its own
C18_Witness ==
  /\ keeps
  /\ \E r1, r2, r3 \in DOMAIN given :
       /\ r1 < r2
       /\ given[r1] = [op |-> "Embed", root |-> KeptVector]
       /\ given[r2] = [op |-> "Embed", root |-> KeptVector]
       /\ given[r3].op = "ListModels"
       /\ given[r3].root \notin ProviderObjs
       /\ heap[given[r3].root].refs = <<KeptModels>>
  /\ heap[KeptVector].written

\* the items of the running call whose Embed fails
FailingItems ==
  {i \in DOMAIN contents : EmbedContent(contents[i], dimensions).err # NoErr}

\* C21: when items fail, the error BatchEmbed returns is the wrapped error
\* of the failing item with the lowest input index, whatever the order in
\* which the workers ran and failed; the errs slice then holds the errors of
\* all failing items.
C21_LowestIndexErrorReported ==
  (bpc = "returned" /\ FailingItems # {})
    => /\ \A i \in FailingItems :
            errs[i] = EmbedContent(contents[i], dimensions).err
       /\ \E i \in FailingItems :
            /\ \A j \in FailingItems : i <= j
            /\ batchRet.err = ErrBatch(EmbedContent(contents[i], dimensions).err)

\* three items failed with three different errors (wrong dimension,
\* backend error, unsupported type) and the call reports the first item's
C21_Witness ==
  /\ bpc = "returned"
  /\ contents = <<StringContent("z"), StringerContent("w"), IntContent(123)>>
  /\ Cardinality({errs[i] : i \in DOMAIN errs}) = 3
  /\ batchRet.err = ErrBatch(errs[1])
  /\ batchRet.err # ErrBatch(errs[2])
  /\ batchRet.err # ErrBatch(errs[3])

\* worker idx has called Embed for its item
Invoked(idx) == wpc[idx] \in {"release", "signal", "finished"}

\* the slots of item idx hold what Embed returns for it
OutcomeStored(rs, es, idx) ==
  LET r == EmbedContent(contents[idx], dimensions)
  IN IF r.err # NoErr
       THEN es[idx] = r.err /\ rs[idx] = NilVec
       ELSE es[idx] = NoErr /\ rs[idx] = r.val

\* C22: the failure of one item does not cancel the others. Each worker
\* calls Embed for its own item exactly once: the step that leaves "embed"
\* stores the item's own outcome, also when another item has failed before;
\* a worker that has called Embed does not call it again; the slots of an
\* item change in no other step of the call; and when BatchEmbed returns
\* every worker has made its call.
C22_EveryItemEmbeddedOnce ==
  [][/\ \A idx \in DOMAIN wpc \cap DOMAIN wpc' :
          /\ (wpc[idx] = "embed" /\ wpc'[idx] # "embed")
               => /\ wpc'[idx] = "release"
                  /\ OutcomeStored(results', errs', idx)
          /\ Invoked(idx) => wpc'[idx] \in {"release", "signal", "finished"}
          /\ (bpc # "idle" /\ ~(wpc[idx] = "embed" /\ wpc'[idx] # "embed"))
               => results'[idx] = results[idx] /\ errs'[idx] = errs[idx]
     /\ (bpc # "returned" /\ bpc' = "returned")
          => \A idx \in DOMAIN contents' :
               wpc'[idx] \in {"release", "signal", "finished"}
                 /\ OutcomeStored(results', errs', idx)]_vars

\* with one permit: the first item's Embed failed and its worker has
\* finished; the second item's worker took the permit after that and its
\* Embed stored the vector
C22_Witness ==
  /\ bpc \in {"spawn", "wait"}
  /\ capacity = 1
  /\ Len(contents) >= 2
  /\ wpc[1] = "finished"
  /\ errs[1] # NoErr
  /\ wpc[2] = "release"
  /\ results[2] = EmbedContent(contents[2], dimensions).val
  /\ results[2] # NilVec

\* goroutine t is between Lock and Unlock of RegisterProvider
InWriteSection(t) == pc[t] = "locked"

\* goroutine t is between RLock and RUnlock of GetProvider, ListProviders
\* or the snapshot of ListModels
InReadSection(t) == pc[t] = "rlocked"

\* C23: the write lock excludes every other holder, read locks are shared.
\* While a RegisterProvider is in its write section no other goroutine is
\* in a write or read section; the goroutines in a section are exactly the
\* holders of the lock in the matching mode; the step that reads the map
\* (lookup, name listing, snapshot) is taken by a holder of the read lock
\* with no writer, and the step that reads and writes it by the holder of
\* the write lock; the map changes in no other step.
C23_ReaderWriterExclusion ==
  [][/\ \A t, u \in Threads :
          (t # u /\ InWriteSection(t)')
            => ~InWriteSection(u)' /\ ~InReadSection(u)'
     /\ \A t \in Threads :
          /\ InWriteSection(t)' <=> mu'.writer = t
          /\ InReadSection(t)' <=> t \in mu'.readers
          /\ (Acts(t) /\ InReadSection(t))
               => (t \in mu.readers /\ mu.writer = NoThread)
          /\ (Acts(t) /\ InWriteSection(t))
               => (mu.writer = t /\ mu.readers = {})
     /\ providers' # providers
          => \E t \in Threads : Acts(t) /\ InWriteSection(t) /\ mu.writer = t]_vars

\* two goroutines hold the read lock together, after a registration
C23_Witness ==
  /\ mu.readers = {1, 2}
  /\ mu.writer = NoThread
  /\ InReadSection(1) /\ InReadSection(2)
  /\ providers # EmptyMap

\* the operations that only read the registry
ReadOps == {"GetProvider", "ListProviders", "ListModels",
            "GetModel", "Complete", "Chat", "Embed"}

\* C24: only RegisterProvider changes the registry. No step of GetProvider,
\* ListProviders, ListModels, GetModel, Complete, Chat or Embed changes the
\* provider map, whatever the providers' methods return; a step that
\* changes it is the locked step of a RegisterProvider call, which adds one
\* name and keeps every other entry.
C24_OnlyRegisterMutates ==
  [][/\ \A t \in Threads :
          (Acts(t) /\ (op[t] \in ReadOps \/ op'[t] \in ReadOps))
            => providers' = providers
     /\ providers' # providers
          => \E t \in Threads :
               /\ Acts(t) /\ op[t] = "RegisterProvider" /\ pc[t] = "locked"
               /\ DOMAIN providers' = DOMAIN providers \cup {Name(arg[t].provider)}
               /\ \A n \in DOMAIN providers : providers'[n] = providers[n]]_vars

\* with a provider registered, one goroutine has returned from a dispatch
\* whose provider call failed and another from ListModels, and the map
\* holds the registered provider
C24_Witness ==
  /\ DOMAIN providers = {"a"}
  /\ \E t, u \in Threads :
       /\ pc[t] = "done" /\ op[t] \in DispatchOps
       /\ calls[t] # <<>> /\ ret[t].err # NoErr
       /\ pc[u] = "done" /\ op[u] = "ListModels"
       /\ DOMAIN ret[u].val = {"a"}
  /\ \E pr \in accepted : providers["a"] = pr[2]

\* C25: when ListModels fails, its error names a provider that this call
\* took from its snapshot and called, whose listing call returned an error,
\* and it wraps exactly the error that call returned.
C25_ListModelsErrorNamesFailure ==
  [][\A t \in Threads :
       (ReturnsFrom(t, "ListModels") /\ ret'[t].err # NoErr)
         => \E i \in DOMAIN calls'[t] :
              LET c == calls'[t][i]
              IN /\ c.op = "ListModels"
                 /\ c.out.err # NoErr
                 /\ \E name \in DOMAIN snapshot[t] :
                      /\ snapshot[t][name] = c.provider
                      /\ ret'[t].err = ErrListModels(name, c.out.err)]_vars

\* providers a and b were in the snapshot; the listing of a succeeded, that
\* of b failed, and the error names b with b's own error
C25_Witness ==
  \E t \in Threads :
    /\ pc[t] = "done" /\ op[t] = "ListModels"
    /\ DOMAIN snapshot[t] = {"a", "b"}
    /\ Len(calls[t]) = 2
    /\ calls[t][1].provider = snapshot[t]["a"]
    /\ calls[t][1].out.err = NoErr
    /\ calls[t][2].provider = "pb"
    /\ ret[t].err = ErrListModels("b", ProviderErr("pb", "ListModels"))

\* goroutine u holds the values operation o returned to it without error
HasReturned(u, o) == pc[u] = "done" /\ op[u] = o /\ ret[u].err = NoErr

\* C26: the registry only grows. An entry of the provider map is never
\* removed or replaced; a GetProvider that returns after another
\* GetProvider for the same name has returned a provider returns that same
\* provider, without error; a ListProviders that returns after another has
\* returned lists at least the names the earlier one listed.
C26_RegistryMonotone ==
  [][/\ \A n \in DOMAIN providers :
          n \in DOMAIN providers' /\ providers'[n] = providers[n]
     /\ \A t, u \in Threads :
          /\ (t # u /\ HasReturned(u, "GetProvider") /\ ReturnsFrom(t, "GetProvider")
                /\ arg'[t].name = arg[u].name)
               => ret'[t] = ret[u]
          /\ (t # u /\ HasReturned(u, "ListProviders") /\ ReturnsFrom(t, "ListProviders"))
               => Range(ret[u].val) \subseteq Range(ret'[t].val)]_vars

\* with a and b registered, two goroutines have each got the provider for
\* a from GetProvider, one after the other: the same instance, the one in
\* the map
C26_Witness ==
  /\ DOMAIN providers = {"a", "b"}
  /\ \E t, u \in Threads :
       /\ t # u
       /\ HasReturned(u, "GetProvider") /\ HasReturned(t, "GetProvider")
       /\ arg[t].name = "a" /\ arg[u].name = "a"
       /\ ret[t].val = ret[u].val
       /\ ret[t].val = providers["a"]

\* goroutine u is in a RegisterProvider call for name n that has passed the
\* argument checks
Registering(u, n) ==
  /\ op[u] = "RegisterProvider"
  /\ ~InvalidProvider(arg[u].provider)
  /\ Name(arg[u].provider) = n

\* C27: of the RegisterProvider calls racing for one name, the first to get
\* the write lock while the name is unregistered succeeds and its instance
\* is the one registered; every call that gets the lock with the name
\* registered, the racing calls that waited among them, returns
\* AlreadyRegistered and leaves the entry as it is. So no two calls for one
\* name both succeed, and the entry is the successful call's instance.
C27_OneRegistrationWins ==
  [][/\ \A t \in Threads :
          (Acts(t) /\ pc[t] = "locked")
            => LET p == arg[t].provider
                   n == Name(p)
               IN IF n \in DOMAIN providers
                    THEN /\ ret'[t].err = ErrAlreadyRegistered(n)
                         /\ providers' = providers
                    ELSE /\ ret'[t].err = NoErr
                         /\ providers'[n] = p
                         /\ \A u \in Threads \ {t} :
                              (pc[u] = "lock" /\ Registering(u, n))
                                => (pc'[u] = "lock" /\ n \in DOMAIN providers')
     /\ \A t, u \in Threads :
          \A n \in DOMAIN providers' :
            (t # u /\ pc'[t] = "done" /\ pc'[u] = "done"
               /\ Registering(t, n)' /\ Registering(u, n)')
              => /\ ~(ret'[t].err = NoErr /\ ret'[u].err = NoErr)
                 /\ ret'[t].err = NoErr => providers'[n] = arg'[t].provider]_vars

\* two calls for the name a, with different instances: the call with pa2
\* succeeded, the call with pa1 got AlreadyRegistered, and pa2 is registered
C27_Witness ==
  \E t, u \in Threads :
    /\ pc[t] = "done" /\ pc[u] = "done"
    /\ op[t] = "RegisterProvider" /\ op[u] = "RegisterProvider"
    /\ arg[t].provider = "pa2" /\ arg[u].provider = "pa1"
    /\ ret[t].err = NoErr
    /\ ret[u].err = ErrAlreadyRegistered("a")
    /\ providers["a"] = "pa2"

\* the providers goroutine t has called so far in its operation
Called(log) == {log[i].provider : i \in DOMAIN log}

\* C28: ListModels works on the registry as it was at one instant. The
\* snapshot step, taken under the read lock, copies the whole map of that
\* moment, and no later step of any goroutine changes the copy; every
\* listing call is made to a provider of the copy, so a provider registered
\* after the snapshot is not called; a successful result has exactly the
\* names of the copy, so such a provider is not in it; and a ListProviders
\* that returns after the result lists every name of the result.
C28_ListModelsSnapshotConsistent ==
  [][\A t \in Threads :
       /\ (Acts(t) /\ pc[t] = "rlocked" /\ op[t] = "ListModels")
            => (snapshot'[t] = providers /\ t \in mu.readers /\ mu.writer = NoThread)
       /\ (op[t] = "ListModels" /\ pc[t] \in {"loop", "listing"})
            => /\ snapshot'[t] = snapshot[t]
               /\ Called(calls'[t]) \subseteq Range(snapshot[t])
               /\ \A n \in DOMAIN providers' \ DOMAIN snapshot[t] :
                    /\ providers'[n] \notin Called(calls'[t])
                    /\ n \notin DOMAIN result'[t]
       /\ (ReturnsFrom(t, "ListModels") /\ ret'[t].err = NoErr)
            => /\ DOMAIN ret'[t].val = DOMAIN snapshot'[t]
               /\ DOMAIN ret'[t].val \subseteq DOMAIN providers'
       /\ \A u \in Threads \ {t} :
            (HasReturned(u, "ListModels") /\ ReturnsFrom(t, "ListProviders"))
              => DOMAIN ret[u].val \subseteq Range(ret'[t].val)]_vars

\* provider b was registered after the snapshot of a ListModels call that
\* then listed a only: b was not called and is not in the result
C28_Witness ==
  \E t \in Threads :
    /\ HasReturned(t, "ListModels")
    /\ DOMAIN snapshot[t] = {"a"}
    /\ DOMAIN providers = {"a", "b"}
    /\ DOMAIN ret[t].val = {"a"}
    /\ Called(calls[t]) = {providers["a"]}

\* C29: the ceiling is at least 1 after construction and after any sequence
\* of SetMaxPoolSize calls, so the semaphore of a BatchEmbed call is made
\* with room for at least one permit: a waiting worker gets a permit
\* whenever none is held.
C29_PoolNeverEmpty ==
  /\ maxPoolSize >= 1
  /\ bpc # "idle" => capacity >= 1
  /\ \A idx \in DOMAIN wpc :
       (wpc[idx] = "acquire" /\ semaphore = 0) => ENABLED WorkerAcquire(idx)

\* a call started with the ceiling set to 2 and SetMaxPoolSize was then
\* called with a non-positive size: the ceiling is the default again, the
\* running call's two permits are taken and a third worker waits
C29_Witness ==
  /\ bpc = "wait"
  /\ capacity = 2
  /\ semaphore = 2
  /\ maxPoolSize = DefaultPoolSize
  /\ \E idx \in DOMAIN wpc : wpc[idx] = "acquire"

\* C30: permits are conserved. The permits in the semaphore are one for
\* each worker between its acquire and its release; a worker's release
\* takes out one permit, whether its Embed failed or not, and comes before
\* its completion signal; a signal is sent only by a worker that has given
\* its permit back; when BatchEmbed returns no permit is held and no worker
\* waits for one.
C30_PermitsConserved ==
  [][/\ semaphore' = Cardinality(InFlight')
     /\ \A idx \in DOMAIN wpc \cap DOMAIN wpc' :
          /\ (wpc[idx] = "acquire" /\ wpc'[idx] # "acquire")
               => (wpc'[idx] = "embed" /\ semaphore' = semaphore + 1)
          /\ (wpc[idx] = "embed" /\ wpc'[idx] # "embed")
               => (wpc'[idx] = "release" /\ semaphore' = semaphore)
          /\ (wpc[idx] = "release" /\ wpc'[idx] # "release")
               => /\ wpc'[idx] = "signal"
                  /\ semaphore' = semaphore - 1
                  /\ done' = done
          /\ (wpc[idx] = "signal" /\ wpc'[idx] # "signal")
               => /\ wpc'[idx] = "finished"
                  /\ semaphore' = semaphore
                  /\ done' = Append(done, idx)
     /\ Len(done') > Len(done)
          => \E idx \in DOMAIN wpc : wpc[idx] = "signal" /\ done' = Append(done, idx)
     /\ (bpc # "returned" /\ bpc' = "returned")
          => /\ semaphore' = 0
             /\ \A idx \in DOMAIN wpc' : wpc'[idx] = "finished"]_vars

\* with one permit: the first worker's Embed failed and it has given the
\* permit back but not yet signalled; the second worker holds the permit
C30_Witness ==
  /\ capacity = 1
  /\ semaphore = 1
  /\ Len(contents) >= 2
  /\ wpc[1] = "signal"
  /\ errs[1] # NoErr
  /\ wpc[2] = "embed"
  /\ done = <<>>

\* goroutine t is inside Lock or RLock and has not got the lock
Waits(t) == pc[t] \in {"lock", "rlock", "rblocked"} /\ ~Holds(t)

\* C31: every registry operation gives back the lock it took, on each of
\* its return paths. A goroutine that has returned, with or without an
\* error, holds nothing, and nothing is left of it in the lock; a goroutine
\* that holds the lock gives it back; and a goroutine that waits for the
\* lock gets it, whatever operations succeeded or failed before.
C31_LockReleasedOnAllPaths ==
  /\ [](\A t \in Threads :
          pc[t] \in {"idle", "done"}
            => (~Holds(t) /\ mu.pending # t /\ t \notin mu.blocked))
  /\ \A t \in Threads :
       /\ Holds(t) ~> ~Holds(t)
       /\ Waits(t) ~> Holds(t)

\* a RegisterProvider call has returned AlreadyRegistered and holds
\* nothing; the other goroutine has the write lock
C31_Witness ==
  \E t, u \in Threads :
    /\ pc[t] = "done" /\ op[t] = "RegisterProvider"
    /\ ret[t].err = ErrAlreadyRegistered("a")
    /\ ~Holds(t)
    /\ pc[u] = "locked"
    /\ mu.writer = u

\* C32: BatchEmbed called with no item returns in the step of the call, an
\* empty sequence that is not nil and no error: no worker is started, so no
\* Embed call is made and nothing is acquired or signalled, and the
\* waiting loop is not entered. Until the caller takes the values nothing
\* of the call changes.
C32_EmptyBatchReturnsAtOnce ==
  [][/\ (bpc = "idle" /\ bpc' # "idle" /\ contents' = <<>>)
          => /\ bpc' = "returned"
             /\ batchRet' = [val |-> Slice(<<>>), err |-> NoErr]
             /\ batchRet'.val # NilResults
             /\ wpc' = <<>>
             /\ spawned' = 0 /\ received' = 0
             /\ semaphore' = 0 /\ done' = <<>>
     /\ (bpc # "idle" /\ contents = <<>>)
          => /\ bpc = "returned"
             /\ bpc' \in {"returned", "idle"}
             /\ wpc' = <<>>
             /\ spawned' = 0 /\ received' = 0
             /\ semaphore' = 0 /\ done' = <<>>
             /\ bpc' = "returned" => batchRet' = batchRet]_vars

\* the call with no item has returned the empty sequence
C32_Witness ==
  /\ bpc = "returned"
  /\ contents = <<>>
  /\ batchRet = [val |-> Slice(<<>>), err |-> NoErr]
  /\ wpc = <<>>
  /\ spawned = 0

\* the workers of call c that hold a permit, and those that have finished
HeldBy(c) == {idx \in DOMAIN c.wpc : c.wpc[idx] \in {"embed", "release"}}

FinishedIn(c) == {idx \in DOMAIN c.wpc : c.wpc[idx] = "finished"}

\* what BatchEmbed returns for the items cs, each embedded on its own
ExpectedOutcome(cs) ==
  BatchOutcome([i \in DOMAIN cs |-> EmbedContent(cs[i], dimensions).val],
               [i \in DOMAIN cs |-> EmbedContent(cs[i], dimensions).err])

\* call c works on its own: its permits are those of its own workers and
\* within its own capacity, its signals are those of its own finished
\* workers, its return values are those of its own items, and nothing is
\* left of it once the caller has them
OnItsOwn(c) ==
  /\ c.semaphore = Cardinality(HeldBy(c))
  /\ c.semaphore <= c.capacity
  /\ Len(c.done) + c.received = Cardinality(FinishedIn(c))
  /\ Range(c.done) \subseteq FinishedIn(c)
  /\ c.bpc = "returned" => c.batchRet = ExpectedOutcome(c.contents)
  /\ c.bpc = "idle" => c = NoCall

\* C33: two BatchEmbed calls running at the same time on one embedder do
\* not share a pool or a completion channel. Each call keeps its in-flight
\* workers within the capacity it was started with; a step of one call
\* changes nothing of the other, so neither takes the other's permits or
\* signals; each returns the outcome of its own items; and a call that has
\* returned leaves nothing behind.
C33_ConcurrentCallsIsolated ==
  [][/\ OnItsOwn(ThisCall)'
     /\ OnItsOwn(other)'
     /\ \/ other' = other
        \/ other' = ThisCall /\ ThisCall' = other]_vars

\* the ceiling is 1 and both calls, on different items, have a worker in
\* flight: two workers run together, each call within its own capacity
C33_Witness ==
  /\ maxPoolSize = 1
  /\ capacity = 1 /\ other.capacity = 1
  /\ HeldBy(ThisCall) # {} /\ HeldBy(other) # {}
  /\ semaphore + other.semaphore > maxPoolSize
  /\ contents # other.contents
  /\ Len(contents) = 2 /\ Len(other.contents) = 2

====
